---------------------------- MODULE Spec2Model ----------------------------
(* tinychess: the session registry (Hub), the per-session state (Game),    *)
(* the HTTP handlers that mutate them and the durable store they mirror to. *)
EXTENDS Integers, Sequences, FiniteSets, TLC

(***************************************************************************)
(* Bounds of the model                                                     *)
(***************************************************************************)
\* the clock advances MaxTicks times
MaxTicks == 1
\* plies a game may reach
MaxMoves == 2
\* the resolution of the clock: instants per second
Second == 2
\* seconds the clock runs while reactions are sent
MaxSeconds == 6
\* broadcasts of state snapshots
MaxCasts == 17
\* messages a streaming connection takes from its channel
MaxTakes == 2
\* hours the clock runs while the sweep is watched
MaxHours == 26

(***************************************************************************)
(* Identifiers                                                             *)
(***************************************************************************)
\* client ids; uuid.Parse succeeds on the members of UUIDs only
ClientIds == {"a", "b", "c"}
GameIds == {"g1"}
UUIDs == {"a", "b", "c", "g1"}
IsUUID(s) == s \in UUIDs

White == "white"
Black == "black"
NoColor == "none"
Colors == {White, Black}
Nil == "nil"

\* a value computed once and named: The({e(x) : x \in {v}}) is e with x bound to v
The(S) == CHOOSE x \in S : TRUE

\* finite maps (Go maps)
EmptyMap == [x \in {} |-> Nil]
Put(m, k, v) == [x \in (DOMAIN m) \cup {k} |-> IF x = k THEN v ELSE m[x]]
Del(m, k) == [x \in (DOMAIN m) \ {k} |-> m[x]]

(***************************************************************************)
(* The rules engine (github.com/corentings/chess): an external             *)
(* collaborator, modelled as a small conformant engine.  Squares are       *)
(* 0..63 (rank*8+file), a move string is a sequence of characters.         *)
(***************************************************************************)
NoSquare == 64

Ord(ch) ==
  CASE ch = "a" -> 97 [] ch = "b" -> 98 [] ch = "c" -> 99 [] ch = "d" -> 100
    [] ch = "g" -> 103 [] ch = "h" -> 104 [] ch = "q" -> 113 [] ch = "z" -> 122
    [] ch = "1" -> 49 [] ch = "2" -> 50 [] ch = "4" -> 52 [] ch = "5" -> 53
    [] ch = "6" -> 54 [] ch = "7" -> 55 [] ch = "8" -> 56 [] ch = "9" -> 57

\* parseSquare: byte arithmetic, file := s[0]-'a', rank := s[1]-'1'
parseSquare(s) ==
  IF Len(s) # 2 THEN NoSquare
  ELSE LET file == (Ord(s[1]) - 97) % 256
           rank == (Ord(s[2]) - 49) % 256
       IN IF file > 7 \/ rank > 7 THEN NoSquare ELSE rank * 8 + file

NoPiece == [color |-> NoColor, type |-> "none"]
Pc(c, t) == [color |-> c, type |-> t]

\* board.Piece(sq): the piece on a square, NoPiece when empty or off board
PieceAt(board, sq) == IF sq \in DOMAIN board THEN board[sq] ELSE NoPiece

Opp(c) == IF c = White THEN Black ELSE White

\* the position a new game starts from:
\* white Kg6 Pa7, black Kh8 Pb7 Pc2, white to move
StartBoard ==
  (46 :> Pc(White, "king")) @@ (48 :> Pc(White, "pawn")) @@
  (63 :> Pc(Black, "king")) @@ (49 :> Pc(Black, "pawn")) @@
  (10 :> Pc(Black, "pawn"))

\* chess.NewGame()
NewChessGame == [board |-> StartBoard, turn |-> White, moves |-> <<>>]

\* pos.String(): the FEN holds the placement and the side to move, not the history
FENOf(cg) == [board |-> cg.board, turn |-> cg.turn]
\* chess.NewGame(chess.FEN(fen)): a game at that position with no moves played
GameFromFEN(fen) == [board |-> fen.board, turn |-> fen.turn, moves |-> <<>>]

\* g.Outcome(): the side to move is mated once the opponent has queened
OutcomeOf(cg) ==
  IF \E sq \in DOMAIN cg.board : cg.board[sq] = Pc(Opp(cg.turn), "queen")
  THEN IF cg.turn = White THEN "0-1" ELSE "1-0"
  ELSE "*"
NoOutcome == "*"
MethodOf(cg) == IF OutcomeOf(cg) = NoOutcome THEN "NoMethod" ELSE "Checkmate"

\* the engine's decision on a move string in a position
LegalMove(cg, uci) ==
  /\ Len(uci) \in {4, 5}
  /\ OutcomeOf(cg) = NoOutcome
  /\ LET from == parseSquare(SubSeq(uci, 1, 2))
         to == parseSquare(SubSeq(uci, 3, 4))
         promo == IF Len(uci) = 5 THEN uci[5] ELSE ""
         p == PieceAt(cg.board, from)
         dir == IF cg.turn = White THEN 8 ELSE -8
         last == IF cg.turn = White THEN to >= 56 ELSE to <= 7
     IN /\ from # NoSquare /\ to # NoSquare
        /\ p.color = cg.turn
        /\ \/ /\ p.type = "pawn"
              /\ to = from + dir
              /\ PieceAt(cg.board, to) = NoPiece
              /\ (last <=> promo = "q")
              /\ promo \in {"", "q"}
           \/ /\ p.type = "king"
              /\ to \in {from + 8, from - 8}
              /\ PieceAt(cg.board, to).color # cg.turn
              /\ PieceAt(cg.board, to).type # "king"
              /\ promo = ""

\* the position after a legal move
ApplyMove(cg, uci) ==
  LET from == parseSquare(SubSeq(uci, 1, 2))
      to == parseSquare(SubSeq(uci, 3, 4))
      p == PieceAt(cg.board, from)
      placed == IF Len(uci) = 5 THEN Pc(p.color, "queen") ELSE p
  IN [board |-> Put(Del(cg.board, from), to, placed),
      turn |-> Opp(cg.turn),
      moves |-> Append(cg.moves, uci)]

\* chess.Game.MoveStr: the new game and the error ("" when accepted)
MoveStr(cg, uci) ==
  IF LegalMove(cg, uci)
  THEN [g |-> ApplyMove(cg, uci), err |-> ""]
  ELSE [g |-> cg, err |-> "invalid move"]

\* chess.Color.String(): the FEN letter of a side
ColorString(c) == IF c = White THEN "w" ELSE IF c = Black THEN "b" ELSE "-"


(***************************************************************************)
(* internal/storage: the durable store.  A nil *Store makes every method a *)
(* successful no-op.  games: id -> row, sessions: <<game, user>> -> row,   *)
(* moves: the rows of the move table in insertion order.                    *)
(***************************************************************************)
NoFEN == [board |-> EmptyMap, turn |-> NoColor]
ZeroTime == 0

EmptyStore(on) == [on |-> on, games |-> EmptyMap, sessions |-> EmptyMap, moves |-> <<>>]

\* Store.CreateGame: insert, ON CONFLICT DO NOTHING
StoreCreateGame(st, id, ownerID, ownerColor, lastSeen) ==
  IF ~st.on \/ id \in DOMAIN st.games THEN st
  ELSE [st EXCEPT !.games = Put(@, id,
         [OwnerID |-> ownerID, OwnerColor |-> ownerColor, FEN |-> NoFEN,
          PGN |-> <<>>, Status |-> "", Result |-> "", Active |-> TRUE,
          LastSeen |-> lastSeen, CompletedAt |-> ZeroTime])]

\* SaveGameState writing the zero value of the active flag when it is not provided
SaveGameStateWhole(st, id, upd) ==
  IF ~st.on \/ DOMAIN upd = {} \/ id \notin DOMAIN st.games THEN st
  ELSE [st EXCEPT !.games[id] =
         [f \in DOMAIN @ |-> IF f \in DOMAIN upd THEN upd[f]
                              ELSE IF f = "Active" THEN FALSE ELSE @[f]]]

\* Store.SaveGameState: upd maps the provided columns to their values
SaveGameState(st, id, upd) ==
  IF ~st.on \/ DOMAIN upd = {} \/ id \notin DOMAIN st.games THEN st
  ELSE [st EXCEPT !.games[id] =
         [f \in DOMAIN @ |-> IF f \in DOMAIN upd THEN upd[f] ELSE @[f]]]

\* Store.EnsureUserSession: FirstOrCreate with Assign.  The role and last_seen
\* columns of a session row are written here and read nowhere in the program,
\* so the row does not carry them.
EnsureUserSession(st, gameID, userID, color, role, lastSeen) ==
  IF ~st.on THEN st
  ELSE [st EXCEPT !.sessions = Put(@, <<gameID, userID>>,
         [Color |-> color, Active |-> TRUE])]

\* Store.DeactivateUserSession
DeactivateUserSession(st, gameID, userID) ==
  IF ~st.on \/ <<gameID, userID>> \notin DOMAIN st.sessions THEN st
  ELSE [st EXCEPT !.sessions[<<gameID, userID>>].Active = FALSE]

\* Store.DeactivateAllSessions
DeactivateAllSessions(st, gameID) ==
  IF ~st.on THEN st
  ELSE [st EXCEPT !.sessions =
         [k \in DOMAIN @ |-> IF k[1] = gameID THEN [@[k] EXCEPT !.Active = FALSE] ELSE @[k]]]

\* Store.RecordMove
RecordMove(st, gameID, userID, number, uci, color) ==
  IF ~st.on THEN st
  ELSE [st EXCEPT !.moves = Append(@,
         [GameID |-> gameID, UserID |-> userID, Number |-> number, UCI |-> uci, Color |-> color])]

\* Store.UpdateLastSeen
UpdateLastSeen(st, id, lastSeen) == SaveGameState(st, id, [LastSeen |-> lastSeen])

\* Store.ForgetGame
ForgetGame(st, id, when) ==
  SaveGameState(st, id, [Status |-> "Abandoned", Active |-> FALSE, CompletedAt |-> when])

\* Store.LoadGame: the row and the active sessions of the game;
\* fail is a store error other than not-found
LoadGame(st, id, fail) ==
  IF ~st.on THEN [err |-> "ErrNotFound"]
  ELSE IF fail THEN [err |-> "store error"]
  ELSE IF id \notin DOMAIN st.games THEN [err |-> "ErrNotFound"]
  ELSE [err |-> "",
        Game |-> st.games[id],
        Players |-> {k \in DOMAIN st.sessions : k[1] = id /\ st.sessions[k].Active}]

(***************************************************************************)
(* internal/game: the Game object                                           *)
(***************************************************************************)
\* newGameInstance: color is the outcome of randomColor()
newGameInstance(id, color, t) ==
  [ID |-> id, g |-> NewChessGame, Watchers |-> {}, LastReact |-> EmptyMap,
   Clients |-> EmptyMap, LastSeen |-> t, OwnerID |-> "", OwnerColor |-> color]

colorFromString(s) ==
  IF s = "black" THEN Black ELSE IF s = "white" THEN White ELSE NoColor

\* assignColor handing the owner's side to the second participant as well
assignColorSameSide(g, clientID) ==
  IF clientID = "" THEN [g |-> g, col |-> Nil]
  ELSE IF clientID \in DOMAIN g.Clients
  THEN [g |-> IF g.OwnerID = ""
              THEN [g EXCEPT !.OwnerID = clientID, !.OwnerColor = g.Clients[clientID]]
              ELSE g,
        col |-> g.Clients[clientID]]
  ELSE IF g.OwnerID = ""
  THEN LET oc == IF g.OwnerColor = NoColor THEN White ELSE g.OwnerColor
       IN [g |-> [g EXCEPT !.OwnerColor = oc, !.OwnerID = clientID,
                           !.Clients = Put(@, clientID, oc)],
           col |-> oc]
  ELSE IF Cardinality(DOMAIN g.Clients) < 2
  THEN [g |-> [g EXCEPT !.Clients = Put(@, clientID, g.OwnerColor)], col |-> g.OwnerColor]
  ELSE [g |-> g, col |-> Nil]

\* assignColor answering a known client with the owner's side
assignColorOwnerSide(g, clientID) ==
  IF clientID = "" THEN [g |-> g, col |-> Nil]
  ELSE IF clientID \in DOMAIN g.Clients
  THEN [g |-> IF g.OwnerID = ""
              THEN [g EXCEPT !.OwnerID = clientID, !.OwnerColor = g.Clients[clientID]]
              ELSE g,
        col |-> IF g.OwnerID = "" THEN g.Clients[clientID] ELSE g.OwnerColor]
  ELSE IF g.OwnerID = ""
  THEN LET oc == IF g.OwnerColor = NoColor THEN White ELSE g.OwnerColor
       IN [g |-> [g EXCEPT !.OwnerColor = oc, !.OwnerID = clientID,
                           !.Clients = Put(@, clientID, oc)],
           col |-> oc]
  ELSE IF Cardinality(DOMAIN g.Clients) < 2
  THEN LET color == IF g.OwnerColor = White THEN Black ELSE White
       IN [g |-> [g EXCEPT !.Clients = Put(@, clientID, color)], col |-> color]
  ELSE [g |-> g, col |-> Nil]

\* assignColor without the limit of two participants
assignColorUncapped(g, clientID) ==
  IF clientID = "" THEN [g |-> g, col |-> Nil]
  ELSE IF clientID \in DOMAIN g.Clients
  THEN [g |-> IF g.OwnerID = ""
              THEN [g EXCEPT !.OwnerID = clientID, !.OwnerColor = g.Clients[clientID]]
              ELSE g,
        col |-> g.Clients[clientID]]
  ELSE IF g.OwnerID = ""
  THEN LET oc == IF g.OwnerColor = NoColor THEN White ELSE g.OwnerColor
       IN [g |-> [g EXCEPT !.OwnerColor = oc, !.OwnerID = clientID,
                           !.Clients = Put(@, clientID, oc)],
           col |-> oc]
  ELSE LET color == IF g.OwnerColor = White THEN Black ELSE White
       IN [g |-> [g EXCEPT !.Clients = Put(@, clientID, color)], col |-> color]

\* assignColor without the lookup of a client it already knows
assignColorForgetful(g, clientID) ==
  IF clientID = "" THEN [g |-> g, col |-> Nil]
  ELSE IF g.OwnerID = ""
  THEN LET oc == IF g.OwnerColor = NoColor THEN White ELSE g.OwnerColor
       IN [g |-> [g EXCEPT !.OwnerColor = oc, !.OwnerID = clientID,
                           !.Clients = Put(@, clientID, oc)],
           col |-> oc]
  ELSE IF Cardinality(DOMAIN g.Clients) < 2
  THEN LET color == IF g.OwnerColor = White THEN Black ELSE White
       IN [g |-> [g EXCEPT !.Clients = Put(@, clientID, color)], col |-> color]
  ELSE [g |-> g, col |-> Nil]

\* Game.assignColor: the game afterwards and the returned colour (Nil: none)
assignColor(g, clientID) ==
  IF clientID = "" THEN [g |-> g, col |-> Nil]
  ELSE IF clientID \in DOMAIN g.Clients
  THEN [g |-> IF g.OwnerID = ""
              THEN [g EXCEPT !.OwnerID = clientID, !.OwnerColor = g.Clients[clientID]]
              ELSE g,
        col |-> g.Clients[clientID]]
  ELSE IF g.OwnerID = ""
  THEN LET oc == IF g.OwnerColor = NoColor THEN White ELSE g.OwnerColor
       IN [g |-> [g EXCEPT !.OwnerColor = oc, !.OwnerID = clientID,
                           !.Clients = Put(@, clientID, oc)],
           col |-> oc]
  ELSE IF Cardinality(DOMAIN g.Clients) < 2
  THEN LET color == IF g.OwnerColor = White THEN Black ELSE White
       IN [g |-> [g EXCEPT !.Clients = Put(@, clientID, color)], col |-> color]
  ELSE [g |-> g, col |-> Nil]

\* the loop of hydrateGame over persisted.Players
HydrateClients(st, id, players) ==
  LET ok == {k \in players : k[2] # "" /\ colorFromString(st.sessions[k].Color) # NoColor}
  IN [u \in {k[2] : k \in ok} |-> colorFromString(st.sessions[<<id, u>>].Color)]

\* Hub.hydrateGame: the game afterwards and the error ("" when none)
hydrateGame(st, g, t, loadFails) ==
  IF ~st.on THEN [g |-> g, err |-> ""]
  ELSE IF ~IsUUID(g.ID) THEN [g |-> g, err |-> ""]
  ELSE The({ IF persisted.err = "ErrNotFound" THEN [g |-> g, err |-> ""]
             ELSE IF persisted.err # "" THEN [g |-> g, err |-> persisted.err]
             ELSE The({ LET row == persisted.Game
                            g1 == IF row.FEN # NoFEN THEN [g EXCEPT !.g = GameFromFEN(row.FEN)] ELSE g
                            g2 == [g1 EXCEPT !.LastSeen = IF row.LastSeen = ZeroTime THEN t ELSE row.LastSeen]
                            g3 == IF row.OwnerID # "" THEN [g2 EXCEPT !.OwnerID = row.OwnerID] ELSE g2
                            g4 == IF colorFromString(row.OwnerColor) # NoColor
                                  THEN [g3 EXCEPT !.OwnerColor = colorFromString(row.OwnerColor)] ELSE g3
                            g5 == [g4 EXCEPT !.Clients =
                                     [u \in (DOMAIN @) \cup (DOMAIN hc) |-> IF u \in DOMAIN hc THEN hc[u] ELSE @[u]]]
                        IN [g |-> g5, err |-> ""]
                      : hc \in {HydrateClients(st, g.ID, persisted.Players)} })
           : persisted \in {LoadGame(st, g.ID, loadFails)} })

\* the clients ownership may pass to when id is removed ("": nobody remains)
Picks(g, id) ==
  IF DOMAIN g.Clients \ {id} = {} THEN {""} ELSE DOMAIN g.Clients \ {id}

\* Game.RemoveClient: pick is the remaining client ownership passes to
RemoveClient(g, id, pick) ==
  LET rest == Del(g.Clients, id)
  IN IF g.OwnerID # id THEN [g EXCEPT !.Clients = rest]
     ELSE IF pick \in DOMAIN rest
     THEN [g EXCEPT !.Clients = rest, !.OwnerID = pick, !.OwnerColor = rest[pick]]
     ELSE [g EXCEPT !.Clients = rest, !.OwnerID = ""]

\* the cooldown of a sender's reactions, in seconds
CooldownSeconds == 5

\* CanReact accepting without a record of the instant
CanReactForgets(g, sender, t) ==
  IF sender \in DOMAIN g.LastReact /\ t - g.LastReact[sender] < CooldownSeconds * Second
  THEN [g |-> g, ok |-> FALSE,
        wait |-> (CooldownSeconds * Second - (t - g.LastReact[sender])) \div Second]
  ELSE [g |-> g, ok |-> TRUE, wait |-> 0]

\* CanReact recording the instant of a rejected reaction as well
CanReactRestarts(g, sender, t) ==
  IF sender \in DOMAIN g.LastReact /\ t - g.LastReact[sender] < CooldownSeconds * Second
  THEN [g |-> [g EXCEPT !.LastReact = Put(@, sender, t)], ok |-> FALSE,
        wait |-> (CooldownSeconds * Second - (t - g.LastReact[sender])) \div Second]
  ELSE [g |-> [g EXCEPT !.LastReact = Put(@, sender, t)], ok |-> TRUE, wait |-> 0]


\* Game.CanReact at instant t: the game afterwards, the verdict and the seconds
\* to wait, int(5 - now.Sub(t).Seconds()) truncating towards zero
CanReact(g, sender, t) ==
  IF sender \in DOMAIN g.LastReact /\ t - g.LastReact[sender] < CooldownSeconds * Second
  THEN [g |-> g, ok |-> FALSE,
        wait |-> (CooldownSeconds * Second - (t - g.LastReact[sender])) \div Second]
  ELSE [g |-> [g EXCEPT !.LastReact = Put(@, sender, t)], ok |-> TRUE, wait |-> 0]

\* Game.AddWatcher
AddWatcher(g, ch) == [g EXCEPT !.Watchers = @ \cup {ch}]

\* a removal that leaves the watcher registered
RemoveWatcherKeeps(g, ch) == g

\* Game.RemoveWatcher
RemoveWatcher(g, ch) == [g EXCEPT !.Watchers = @ \ {ch}]

\* Game.Touch
Touch(g, t) == [g EXCEPT !.LastSeen = t]

StatusOf(cg) ==
  IF OutcomeOf(cg) = NoOutcome THEN ""
  ELSE IF OutcomeOf(cg) = "1-0" THEN "1-0 by Checkmate" ELSE "0-1 by Checkmate"

\* Game.StateLocked
StateLocked(g) ==
  [Kind |-> "state", FEN |-> FENOf(g.g), Turn |-> ColorString(g.g.turn),
   Status |-> StatusOf(g.g), PGN |-> g.g.moves, UCI |-> g.g.moves,
   LastSeen |-> g.LastSeen, Watchers |-> Cardinality(g.Watchers)]

\* MakeMove entering the move in the history before the engine has decided on it
MakeMoveRecords(g, uci) ==
  The({ [g |-> [g EXCEPT !.g = IF r.err = "" THEN r.g ELSE [r.g EXCEPT !.moves = Append(@, uci)]],
         err |-> r.err]
      : r \in {MoveStr(g.g, uci)} })

\* Game.MakeMove
MakeMove(g, uci) ==
  The({ [g |-> [g EXCEPT !.g = r.g], err |-> r.err] : r \in {MoveStr(g.g, uci)} })

(***************************************************************************)
(* State                                                                    *)
(***************************************************************************)
\* Game objects that can be alive at once
MaxObjs == 3
Refs == 1..MaxObjs
NoRef == 0
NoGame == [ID |-> ""]

\* the streaming connections; each has the channel HandleSSE makes for it
Conns == {"s1", "s2"}
\* a connection not opened yet
NoStream == [pc |-> "idle", g |-> NoRef]
\* reacts: per Game object and sender, the instants of its accepted reactions;
\* cast: per connection, the messages broadcast while its channel was registered;
\* taken: per connection, the messages its loop took from the channel;
\* serial: the number of broadcasts so far
NoObs == [reacts |-> [r \in Refs |-> EmptyMap],
          cast |-> [w \in Conns |-> <<>>],
          taken |-> [w \in Conns |-> <<>>],
          gone |-> [w \in Conns |-> 0],
          serial |-> 0]

VARIABLES
  hub,      \* Hub.Games: session id -> reference of its Game object (NoRef: absent)
  games,    \* the Game objects by reference (NoGame: no such object)
  store,    \* the durable store
  now,      \* the wall clock, in instants (Second of them a second)
  joins,    \* per Game object: how it came to be and the joins it has seen since
  kept,     \* per Game object: the participant ownership passed to at a removal
  th,       \* per client: its Hub.Get call in flight
  chans,    \* per streaming connection: the buffer of its channel
  streams,  \* per streaming connection: the position of its HandleSSE and its Game
  obs       \* what the callers have observed: accepted reactions, messages sent and taken

vars == <<hub, games, store, now, joins, kept, th, chans, streams, obs>>

\* the idle threshold of the sweep, in hours; one step of the clock exceeds it
IdleHours == 24
Hour == 3600 * Second
ClockStep == (IdleHours + 1) * Hour
MaxNow == ClockStep * (MaxTicks + 1)

\* the moves a client may submit (already trimmed and lower-cased)
MoveInputs ==
  { <<>>, <<"g">>,
    <<"a", "7", "a", "8">>, <<"g", "6", "g", "7">>, <<"g", "6", "g", "4">>,
    <<"b", "7", "b", "6">>, <<"b", "7", "b", "5">>, <<"d", "4", "d", "5">>,
    <<"z", "9", "z", "9">> }

FreeRef(gs) == CHOOSE r \in Refs : gs[r] = NoGame /\ \A q \in Refs : gs[q] = NoGame => r <= q
HasFreeRef(gs) == \E r \in Refs : gs[r] = NoGame

\* the objects no reference leads to are reclaimed
CollectFor(h, gs, t, ss) ==
  [r \in Refs |-> IF \/ \E id \in GameIds : h[id] = r
                     \/ \E c \in ClientIds : t[c].g = r
                     \/ \E w \in Conns : ss[w].g = r
                  THEN gs[r] ELSE NoGame]

Collect(h, gs, t) == CollectFor(h, gs, t, streams)

\* the store calls of a request that fail: none, every call of the store succeeds
NoFails == {}
\* randomColor() is drawn only when a Game object is created
ColorDraws(h, id) == IF h[id] = NoRef THEN Colors ELSE {White}

IdleThread == [pc |-> "idle", id |-> "", g |-> NoRef, col |-> Nil, err |-> ""]

(***************************************************************************)
(* Hub.Get                                                                  *)
(***************************************************************************)
\* the locked section creating and publishing an object whatever the map holds
GetLockedNoLookup(h, gs, st, id, color, t, fails) ==
  The({ [hub |-> [h EXCEPT ![id] = r], games |-> [gs EXCEPT ![r] = hy.g],
         g |-> r, err |-> "", created |-> TRUE,
         loaded |-> st.on /\ IsUUID(id) /\ id \in DOMAIN st.games, loads |-> 1,
         calls |-> IF st.on /\ IsUUID(id) THEN {"LoadGame"} ELSE {}]
      : r \in {FreeRef(gs)},
        hy \in {hydrateGame(st, newGameInstance(id, color, t), t, "LoadGame" \in fails)} })

\* the locked section publishing the new object although its hydration failed
GetLockedHalf(h, gs, st, id, color, t, fails) ==
  IF h[id] # NoRef
  THEN [hub |-> h, games |-> gs, g |-> h[id], err |-> "", created |-> FALSE,
        loaded |-> FALSE, loads |-> 0, calls |-> {}]
  ELSE The({ [hub |-> [h EXCEPT ![id] = r], games |-> [gs EXCEPT ![r] = hy.g],
              g |-> IF hy.err # "" THEN NoRef ELSE r, err |-> hy.err,
              created |-> hy.err = "",
              loaded |-> hy.err = "" /\ st.on /\ IsUUID(id) /\ id \in DOMAIN st.games,
              loads |-> IF hy.err = "" THEN 1 ELSE 0,
              calls |-> IF st.on /\ IsUUID(id) THEN {"LoadGame"} ELSE {}]
           : r \in {FreeRef(gs)},
             hy \in {hydrateGame(st, newGameInstance(id, color, t), t, "LoadGame" \in fails)} })

\* the section of Get under h.Mu: look up, or create, hydrate and publish;
\* loads counts the runs of hydrateGame on the object returned
GetLocked(h, gs, st, id, color, t, fails) ==
  IF h[id] # NoRef
  THEN [hub |-> h, games |-> gs, g |-> h[id], err |-> "", created |-> FALSE,
        loaded |-> FALSE, loads |-> 0, calls |-> {}]
  ELSE The({ LET calls == IF st.on /\ IsUUID(id) THEN {"LoadGame"} ELSE {}
             IN IF hy.err # ""
                THEN [hub |-> h, games |-> gs, g |-> NoRef, err |-> hy.err, created |-> FALSE,
                      loaded |-> FALSE, loads |-> 0, calls |-> calls]
                ELSE [hub |-> [h EXCEPT ![id] = r], games |-> [gs EXCEPT ![r] = hy.g],
                      g |-> r, err |-> "", created |-> TRUE,
                      loaded |-> st.on /\ IsUUID(id) /\ id \in DOMAIN st.games, loads |-> 1,
                      calls |-> calls]
           : r \in {FreeRef(gs)},
             hy \in {hydrateGame(st, newGameInstance(id, color, t), t, "LoadGame" \in fails)} })

\* the upsert of Get after assignColor: the store afterwards and the error
GetEnsure(st, g, id, clientID, col, t, fails) ==
  IF col # Nil /\ st.on /\ IsUUID(id) /\ IsUUID(clientID)
  THEN LET role == IF g.OwnerID = clientID THEN "owner" ELSE "player"
       IN IF "EnsureUserSession" \in fails
          THEN [store |-> st, err |-> "store error", calls |-> {"EnsureUserSession"}]
          ELSE [store |-> EnsureUserSession(st, id, clientID, ColorString(col), role, t),
                err |-> "", calls |-> {"EnsureUserSession"}]
  ELSE [store |-> st, err |-> "", calls |-> {}]

\* Hub.Get as one call; before is the object as assignColor found it
HubGet(h, gs, st, id, clientID, color, t, fails) ==
  The({ IF l.err # ""
        THEN [hub |-> l.hub, games |-> l.games, store |-> st, g |-> NoRef, col |-> Nil,
              err |-> l.err, created |-> FALSE, loaded |-> FALSE, loads |-> 0,
              before |-> NoGame, calls |-> l.calls]
        ELSE The({ The({ [hub |-> l.hub, games |-> [l.games EXCEPT ![l.g] = a.g],
                          store |-> e.store, g |-> l.g, col |-> a.col, err |-> e.err,
                          created |-> l.created, loaded |-> l.loaded, loads |-> l.loads,
                          before |-> l.games[l.g], calls |-> l.calls \cup e.calls]
                        : e \in {GetEnsure(st, a.g, id, clientID, a.col, t, fails)} })
                   : a \in {assignColor(l.games[l.g], clientID)} })
      : l \in {GetLocked(h, gs, st, id, color, t, fails)} })

\* the record of an object: fresh when it was created by Get from no stored row,
\* log the distinct clients that joined it through Get with the side each was
\* given, loads the runs of hydrateGame on it
NoJoins == [fresh |-> FALSE, log |-> <<>>, loads |-> 0]

\* the record after the locked section l of a Get
Created(js, l) ==
  IF l.g = NoRef THEN js
  ELSE [js EXCEPT ![l.g] =
          IF l.created THEN [fresh |-> ~l.loaded, log |-> <<>>, loads |-> l.loads]
          ELSE [@ EXCEPT !.loads = IF @ + l.loads > 2 THEN 2 ELSE @ + l.loads]]

\* the record after assignColor answered clientID with col on object ref
Joined(js, ref, clientID, col) ==
  IF ref = NoRef \/ clientID = "" THEN js
  ELSE IF ~js[ref].fresh \/ \E i \in 1..Len(js[ref].log) : js[ref].log[i].c = clientID
  THEN js
  ELSE [js EXCEPT ![ref].log = Append(@, [c |-> clientID, col |-> col])]

Unfresh(js, ref) == [js EXCEPT ![ref].fresh = FALSE, ![ref].log = <<>>]

\* who: the participant that became owner when the owner was removed, side: the
\* side it had then, joined: a new participant has been given a side since
NoKept == [who |-> "", side |-> NoColor, joined |-> FALSE]

KeptCreated(ks, l) == IF l.g # NoRef /\ l.created THEN [ks EXCEPT ![l.g] = NoKept] ELSE ks

KeptJoined(ks, ref, before, clientID, col) ==
  IF ref = NoRef \/ clientID = "" \/ col = Nil THEN ks
  ELSE IF ks[ref].who # "" /\ clientID \notin DOMAIN before.Clients
  THEN [ks EXCEPT ![ref].joined = TRUE]
  ELSE ks

Reclaim(f, gs, none) == [r \in Refs |-> IF gs[r] = NoGame THEN none ELSE f[r]]

\* the variables after a request that left the hub h, the objects gs and the store st
Commit(h, gs, st, js, ks) ==
  LET live == Collect(h, gs, th)
  IN /\ hub' = h
     /\ games' = live
     /\ store' = st
     /\ joins' = Reclaim(js, live, NoJoins)
     /\ kept' = Reclaim(ks, live, NoKept)
     /\ UNCHANGED <<now, th, chans, streams, obs>>

\* Handler.HandlePage on a game path: Hub.Get with no client, its error ignored
HandlePage(id) ==
  /\ HasFreeRef(games)
  /\ \E color \in ColorDraws(hub, id) :
     \E r \in {HubGet(hub, games, store, id, "", color, now, NoFails)} :
       Commit(r.hub, r.games, r.store, Created(joins, r), KeptCreated(kept, r))

\* Handler.persistLastSeen: the store afterwards
persistLastSeen(st, id, ts, fails) ==
  IF ~st.on \/ ~IsUUID(id) \/ "UpdateLastSeen" \in fails THEN st
  ELSE UpdateLastSeen(st, id, ts)

\* HandleSSE ending the request when the store has no row to update
SSECallStrict(h, gs, st, id, clientID, color, t, fails) ==
  The({ IF r.err # "" THEN r
        ELSE IF st.on /\ id \notin DOMAIN st.games THEN [r EXCEPT !.err = "store error"]
        ELSE [r EXCEPT !.games[r.g] = Touch(@, t),
                       !.store = persistLastSeen(@, id, t, fails)]
      : r \in {HubGet(h, gs, st, id, clientID, color, t, fails)} })

\* Handler.HandleSSE up to its event loop: Hub.Get, the first event, Touch and
\* persistLastSeen; an error of Hub.Get ends the request before them
SSECall(h, gs, st, id, clientID, color, t, fails) ==
  The({ IF r.err # "" THEN r
        ELSE [r EXCEPT !.games[r.g] = Touch(@, t),
                       !.store = persistLastSeen(@, id, t, fails)]
      : r \in {HubGet(h, gs, st, id, clientID, color, t, fails)} })

\* a client opening the event stream of a game
HandleSSE(id, clientID) ==
  /\ HasFreeRef(games)
  /\ \E color \in ColorDraws(hub, id) :
     \E r \in {SSECall(hub, games, store, id, clientID, color, now, NoFails)} :
       Commit(r.hub, r.games, r.store,
              Joined(Created(joins, r), r.g, clientID, r.col),
              KeptJoined(KeptCreated(kept, r), r.g, r.before, clientID, r.col))

(***************************************************************************)
(* Hub.Get, call by call: the calls of the clients interleave at the locks  *)
(***************************************************************************)
\* h.Mu.Lock() ... h.Mu.Unlock()
GetResolve(c, id) ==
  /\ th[c].pc = "idle"
  /\ HasFreeRef(games)
  /\ \E color \in ColorDraws(hub, id) :
     \E l \in {GetLocked(hub, games, store, id, color, now, NoFails)} :
       /\ th' = [th EXCEPT ![c] =
                   IF l.err # ""
                   THEN [pc |-> "done", id |-> id, g |-> NoRef, col |-> Nil, err |-> l.err]
                   ELSE [pc |-> "assign", id |-> id, g |-> l.g, col |-> Nil, err |-> ""]]
       /\ hub' = l.hub
       /\ games' = Collect(l.hub, l.games, th')
       /\ joins' = Reclaim(Created(joins, l), games', NoJoins)
       /\ kept' = Reclaim(KeptCreated(kept, l), games', NoKept)
       /\ UNCHANGED <<store, now, chans, streams, obs>>

\* g.assignColor(clientID), under g.Mu
GetAssign(c) ==
  /\ th[c].pc = "assign"
  /\ \E a \in {assignColor(games[th[c].g], c)} :
       /\ games' = [games EXCEPT ![th[c].g] = a.g]
       /\ th' = [th EXCEPT ![c].pc = "persist", ![c].col = a.col]
       /\ joins' = Joined(joins, th[c].g, c, a.col)
       /\ kept' = KeptJoined(kept, th[c].g, games[th[c].g], c, a.col)
       /\ UNCHANGED <<hub, store, now, chans, streams, obs>>

\* the read of g.OwnerID for the role and h.Store.EnsureUserSession, under no lock
GetPersist(c) ==
  /\ th[c].pc = "persist"
  /\ \E e \in {GetEnsure(store, games[th[c].g], th[c].id, c, th[c].col, now, NoFails)} :
       /\ store' = e.store
       /\ th' = [th EXCEPT ![c].pc = "done", ![c].err = e.err]
       /\ UNCHANGED <<hub, games, now, joins, kept, chans, streams, obs>>

(***************************************************************************)
(* Hub.CreateGame                                                           *)
(***************************************************************************)
\* CreateGame leaving the new session in the registry when a store call fails
CreateGameCallLeaves(h, gs, st, ownerID, id, color, t, fails) ==
  IF ownerID = "" \/ ~IsUUID(ownerID)
  THEN [hub |-> h, games |-> gs, store |-> st, id |-> "", color |-> NoColor,
        err |-> "invalid UUID", calls |-> {}]
  ELSE
    LET g == [newGameInstance(id, color, t) EXCEPT !.OwnerID = ownerID,
                                                   !.Clients = Put(@, ownerID, color)]
        st1 == StoreCreateGame(st, id, ownerID, ColorString(color), t)
        st2 == EnsureUserSession(st1, id, ownerID, ColorString(color), "owner", t)
        failed == st.on /\ fails # {}
    IN [hub |-> [h EXCEPT ![id] = FreeRef(gs)], games |-> [gs EXCEPT ![FreeRef(gs)] = g],
        store |-> IF failed THEN st ELSE st2,
        id |-> IF failed THEN "" ELSE id,
        color |-> IF failed THEN NoColor ELSE color,
        err |-> IF failed THEN "store error" ELSE "", calls |-> {}]

\* id is the outcome of uuid.NewString(), color the outcome of randomColor()
CreateGameCall(h, gs, st, ownerID, id, color, t, fails) ==
  IF ownerID = "" THEN [hub |-> h, games |-> gs, store |-> st, id |-> "", color |-> NoColor,
                        err |-> "missing owner id", calls |-> {}]
  ELSE IF ~IsUUID(ownerID) THEN [hub |-> h, games |-> gs, store |-> st, id |-> "",
                                 color |-> NoColor, err |-> "invalid UUID", calls |-> {}]
  ELSE
    LET r == FreeRef(gs)
        g == [newGameInstance(id, color, t) EXCEPT !.OwnerID = ownerID,
                                                   !.Clients = Put(@, ownerID, color)]
        gs1 == [gs EXCEPT ![r] = g]
        h1 == [h EXCEPT ![id] = r]
        calls == IF st.on THEN {"CreateGame", "EnsureUserSession", "SaveGameState"} ELSE {}
        rollback(s, e) == [hub |-> h, games |-> gs, store |-> s, id |-> "", color |-> NoColor,
                           err |-> e, calls |-> calls]
        st1 == StoreCreateGame(st, id, ownerID, ColorString(g.OwnerColor), g.LastSeen)
        st2 == EnsureUserSession(st1, id, ownerID, ColorString(g.OwnerColor), "owner", g.LastSeen)
        state == StateLocked(g)
        st3 == SaveGameState(st2, id, [FEN |-> state.FEN, PGN |-> state.PGN,
                 Status |-> state.Status, Active |-> TRUE, LastSeen |-> g.LastSeen])
    IN IF ~st.on THEN [hub |-> h1, games |-> gs1, store |-> st, id |-> id,
                       color |-> g.OwnerColor, err |-> "", calls |-> calls]
       ELSE IF ~IsUUID(id) THEN rollback(st, "invalid UUID")
       ELSE IF "CreateGame" \in fails THEN rollback(st, "store error")
       ELSE IF "EnsureUserSession" \in fails THEN rollback(st1, "store error")
       ELSE IF "SaveGameState" \in fails THEN rollback(st2, "store error")
       ELSE [hub |-> h1, games |-> gs1, store |-> st3, id |-> id, color |-> g.OwnerColor,
             err |-> "", calls |-> calls]

\* a fresh UUID names no session anywhere
FreshIds == {id \in GameIds : IsUUID(id) /\ hub[id] = NoRef /\ id \notin DOMAIN store.games
                              /\ \A k \in DOMAIN store.sessions : k[1] # id}

CreateGame(ownerID) ==
  /\ HasFreeRef(games)
  /\ \E id \in FreshIds, color \in Colors :
     \E r \in {CreateGameCall(hub, games, store, ownerID, id, color, now, NoFails)} :
       Commit(r.hub, r.games, r.store,
              [joins EXCEPT ![r.hub[id]] = NoJoins], [kept EXCEPT ![r.hub[id]] = NoKept])

(***************************************************************************)
(* Handler.HandleMove                                                       *)
(***************************************************************************)
appendPromotionIfPawn(g, uci) ==
  IF Len(uci) # 4 THEN uci
  ELSE IF uci[4] # "1" /\ uci[4] # "8" THEN uci
  ELSE LET sq == parseSquare(SubSeq(uci, 1, 2))
       IN IF sq = NoSquare THEN uci
          ELSE IF PieceAt(GameFromFEN(StateLocked(g).FEN).board, sq).type = "pawn"
               THEN Append(uci, "q") ELSE uci

\* persistGameState with the test of the outcome negated
persistGameStateNegated(st, id, state, outcome, lastSeen, fails) ==
  IF ~st.on \/ ~IsUUID(id) \/ "SaveGameState" \in fails THEN st
  ELSE LET active == outcome # NoOutcome
           upd == [FEN |-> state.FEN, PGN |-> state.PGN, Status |-> state.Status,
                   Active |-> active, LastSeen |-> lastSeen]
       IN SaveGameState(st, id,
            IF active THEN upd ELSE upd @@ [Result |-> outcome, CompletedAt |-> lastSeen])

\* Handler.persistGameState: the store afterwards
persistGameState(st, id, state, outcome, lastSeen, fails) ==
  IF ~st.on \/ ~IsUUID(id) \/ "SaveGameState" \in fails THEN st
  ELSE LET active == outcome = NoOutcome
           upd == [FEN |-> state.FEN, PGN |-> state.PGN, Status |-> state.Status,
                   Active |-> active, LastSeen |-> lastSeen]
       IN SaveGameState(st, id,
            IF active THEN upd ELSE upd @@ [Result |-> outcome, CompletedAt |-> lastSeen])

\* Handler.recordMove: the store afterwards
recordMove(st, gameID, clientID, number, uci, color, isOwner, lastSeen, fails) ==
  IF ~st.on \/ ~IsUUID(gameID) \/ ~IsUUID(clientID) \/ "RecordMove" \in fails THEN st
  ELSE LET colorStr == IF color = Black THEN "black" ELSE "white"
           st1 == RecordMove(st, gameID, clientID, number, uci, colorStr)
           role == IF isOwner THEN "owner" ELSE "player"
       IN IF "EnsureUserSession" \in fails THEN st1
          ELSE EnsureUserSession(st1, gameID, clientID, colorStr, role, lastSeen)

NoState == [Kind |-> "none"]

\* the checks of HandleMove on the snapshot: "" when the move may go to the engine
MoveCheck(g, clientID, uci) ==
  LET state == StateLocked(g)
      ok == clientID \in DOMAIN g.Clients
      playerColor == IF ok THEN g.Clients[clientID] ELSE NoColor
      tmp == GameFromFEN(state.FEN)
      piece == PieceAt(tmp.board, parseSquare(SubSeq(uci, 1, 2)))
  IN IF ~ok THEN "unknown client"
     ELSE IF piece = NoPiece \/ piece.color # playerColor THEN "wrong color"
     ELSE IF tmp.turn # playerColor THEN "not your turn"
     ELSE ""

\* the store calls HandleMove makes after the engine has accepted the move
MoveWrites == {"SaveGameState", "RecordMove", "EnsureUserSession"}

\* HandleMove answering a failed store write with an error and starting no broadcast
MoveCallSurfaces(h, gs, st, id, clientID, uci0, color, t, fails) ==
  The({
    LET out(gs1, st1, result, error, state, cast) ==
          [hub |-> r.hub, games |-> gs1, store |-> st1, g |-> r.g, result |-> result,
           error |-> error, state |-> state, cast |-> cast, get |-> r]
    IN IF r.err # "" THEN out(r.games, r.store, "http500", "game unavailable", NoState, FALSE)
       ELSE IF clientID = ""
       THEN out(r.games, r.store, "http400", "missing client id", NoState, FALSE)
       ELSE The({
         IF Len(uci) < 2 THEN out(r.games, r.store, "panic", "", NoState, FALSE)
         ELSE The({
           LET g0 == r.games[r.g]
               state == StateLocked(g0)
               playerColor == IF clientID \in DOMAIN g0.Clients THEN g0.Clients[clientID] ELSE NoColor
               isOwner == g0.OwnerID = clientID
               state2 == StateLocked(m.g)
               st1 == persistGameState(r.store, id, state2, OutcomeOf(m.g.g), t, fails)
               st2 == recordMove(st1, id, clientID, Len(state2.UCI), uci, playerColor, isOwner, t, fails)
           IN IF check # "" THEN out(r.games, r.store, "rejected", check, state, FALSE)
              ELSE IF m.err # ""
              THEN out([r.games EXCEPT ![r.g] = m.g], r.store, "rejected", m.err, state, FALSE)
              ELSE IF r.store.on /\ fails \cap MoveWrites # {}
              THEN out([r.games EXCEPT ![r.g] = m.g], st2, "http500", "store error", NoState, FALSE)
              ELSE out([r.games EXCEPT ![r.g] = m.g], st2, "ok", "", state2, TRUE)
           : check \in {MoveCheck(r.games[r.g], clientID, uci)},
             m \in {MakeMove(Touch(r.games[r.g], t), uci)} })
         : uci \in {appendPromotionIfPawn(r.games[r.g], uci0)} })
    : r \in {HubGet(h, gs, st, id, "", color, t, fails)} })

\* Handler.HandleMove: result is the kind of response ("panic": the handler
\* aborts and writes none), state the snapshot it carries, cast whether it
\* started a Broadcast goroutine, before the object as Hub.Get returned it
MoveCall(h, gs, st, id, clientID, uci0, color, t, fails) ==
  The({
    LET out(gs1, st1, result, error, state, cast) ==
          [hub |-> r.hub, games |-> gs1, store |-> st1, g |-> r.g, result |-> result,
           error |-> error, state |-> state, cast |-> cast, get |-> r]
    IN IF r.err # "" THEN out(r.games, r.store, "http500", "game unavailable", NoState, FALSE)
       ELSE IF clientID = ""
       THEN out(r.games, r.store, "http400", "missing client id", NoState, FALSE)
       ELSE The({
         IF Len(uci) < 2 THEN out(r.games, r.store, "panic", "", NoState, FALSE)
         ELSE The({
           LET g0 == r.games[r.g]
               state == StateLocked(g0)
               playerColor == IF clientID \in DOMAIN g0.Clients THEN g0.Clients[clientID] ELSE NoColor
               isOwner == g0.OwnerID = clientID
               state2 == StateLocked(m.g)
               st1 == persistGameState(r.store, id, state2, OutcomeOf(m.g.g), t, fails)
               st2 == recordMove(st1, id, clientID, Len(state2.UCI), uci, playerColor, isOwner, t, fails)
           IN IF check # "" THEN out(r.games, r.store, "rejected", check, state, FALSE)
              ELSE IF m.err # ""
              THEN out([r.games EXCEPT ![r.g] = m.g], r.store, "rejected", m.err, state, FALSE)
              ELSE out([r.games EXCEPT ![r.g] = m.g], st2, "ok", "", state2, TRUE)
           : check \in {MoveCheck(r.games[r.g], clientID, uci)},
             m \in {MakeMove(Touch(r.games[r.g], t), uci)} })
         : uci \in {appendPromotionIfPawn(r.games[r.g], uci0)} })
    : r \in {HubGet(h, gs, st, id, "", color, t, fails)} })

\* a request at a time; with no stream open the Broadcast it starts finds no watcher
HandleMove(id, clientID, uci) ==
  /\ HasFreeRef(games)
  /\ \E color \in ColorDraws(hub, id) :
     \E r \in {MoveCall(hub, games, store, id, clientID, uci, color, now, NoFails)} :
       /\ r.result = "ok" =>
            Len(r.get.before.g.moves) < MaxMoves /\ Len(store.moves) < MaxMoves
       /\ Commit(r.hub, r.games, r.store, Created(joins, r.get), KeptCreated(kept, r.get))

(***************************************************************************)
(* Handler.HandleRelease                                                    *)
(***************************************************************************)
\* Handler.deactivateSession: the store afterwards
deactivateSession(st, gameID, userID, fails) ==
  IF ~st.on \/ ~IsUUID(gameID) \/ ~IsUUID(userID) \/ "DeactivateUserSession" \in fails THEN st
  ELSE DeactivateUserSession(st, gameID, userID)

\* HandleRelease without the comparison of the requester with the owner
ReleaseCallAnyone(h, gs, st, id, clientID, targetID, pick, color, t, fails) ==
  The({
    LET out(gs1, st1, result, error, removed) ==
          [hub |-> r.hub, games |-> gs1, store |-> st1, g |-> r.g, result |-> result,
           error |-> error, removed |-> removed, get |-> r]
    IN IF r.err # "" THEN out(r.games, r.store, "http500", "game unavailable", FALSE)
       ELSE IF clientID = "" \/ targetID = ""
       THEN out(r.games, r.store, "http400", "missing client id", FALSE)
       ELSE out([r.games EXCEPT ![r.g] = RemoveClient(@, targetID, pick)],
                deactivateSession(r.store, id, targetID, fails), "ok", "", TRUE)
    : r \in {HubGet(h, gs, st, id, "", color, t, fails)} })

\* HandleRelease removing the requester in place of the target
ReleaseCallRequester(h, gs, st, id, clientID, targetID, pick, color, t, fails) ==
  The({
    LET out(gs1, st1, result, error, removed) ==
          [hub |-> r.hub, games |-> gs1, store |-> st1, g |-> r.g, result |-> result,
           error |-> error, removed |-> removed, get |-> r]
    IN IF r.err # "" THEN out(r.games, r.store, "http500", "game unavailable", FALSE)
       ELSE IF clientID = "" \/ targetID = ""
       THEN out(r.games, r.store, "http400", "missing client id", FALSE)
       ELSE IF clientID # r.games[r.g].OwnerID
       THEN out(r.games, r.store, "rejected", "not owner", FALSE)
       ELSE out([r.games EXCEPT ![r.g] = RemoveClient(@, clientID, pick)],
                deactivateSession(r.store, id, clientID, fails), "ok", "", TRUE)
    : r \in {HubGet(h, gs, st, id, "", color, t, fails)} })

\* Handler.HandleRelease; pick is the client RemoveClient passes ownership to,
\* if it has to
ReleaseCall(h, gs, st, id, clientID, targetID, pick, color, t, fails) ==
  The({
    LET out(gs1, st1, result, error, removed) ==
          [hub |-> r.hub, games |-> gs1, store |-> st1, g |-> r.g, result |-> result,
           error |-> error, removed |-> removed, get |-> r]
    IN IF r.err # "" THEN out(r.games, r.store, "http500", "game unavailable", FALSE)
       ELSE IF clientID = "" \/ targetID = ""
       THEN out(r.games, r.store, "http400", "missing client id", FALSE)
       ELSE IF clientID # r.games[r.g].OwnerID
       THEN out(r.games, r.store, "rejected", "not owner", FALSE)
       ELSE out([r.games EXCEPT ![r.g] = RemoveClient(@, targetID, pick)],
                deactivateSession(r.store, id, targetID, fails), "ok", "", TRUE)
    : r \in {HubGet(h, gs, st, id, "", color, t, fails)} })

\* the choices RemoveClient has in a release: none unless it removes the owner
ReleasePicks(r, targetID) ==
  IF r.removed /\ r.get.before.OwnerID = targetID THEN Picks(r.get.before, targetID) ELSE {""}

\* after a removal: the participant promoted in place of a removed owner
KeptAfterRelease(ks, r, targetID) ==
  LET before == r.get.before
      after == r.games[r.g]
  IN IF before.OwnerID = targetID /\ after.OwnerID # ""
     THEN [ks EXCEPT ![r.g] = [who |-> after.OwnerID, side |-> after.Clients[after.OwnerID],
                               joined |-> FALSE]]
     ELSE IF ks[r.g].who = targetID THEN [ks EXCEPT ![r.g] = NoKept]
     ELSE ks

HandleRelease(id, clientID, targetID) ==
  /\ HasFreeRef(games)
  /\ \E color \in ColorDraws(hub, id) :
     \E none \in {ReleaseCall(hub, games, store, id, clientID, targetID, "", color, now, NoFails)} :
     \E pick \in ReleasePicks(none, targetID) :
     \E r \in {IF pick = "" THEN none
               ELSE ReleaseCall(hub, games, store, id, clientID, targetID, pick, color, now,
                                NoFails)} :
       /\ pick \in ReleasePicks(r, targetID)
       /\ Commit(r.hub, r.games, r.store,
                 IF r.removed THEN Unfresh(Created(joins, r.get), r.g) ELSE Created(joins, r.get),
                 IF r.removed THEN KeptAfterRelease(KeptCreated(kept, r.get), r, targetID)
                 ELSE KeptCreated(kept, r.get))

(***************************************************************************)
(* Handler.HandleForget                                                     *)
(***************************************************************************)
\* Handler.markGameForgotten: the store afterwards
markGameForgotten(st, id, t, fails) ==
  IF ~st.on \/ ~IsUUID(id) \/ "ForgetGame" \in fails THEN st
  ELSE IF "DeactivateAllSessions" \in fails THEN ForgetGame(st, id, t)
  ELSE DeactivateAllSessions(ForgetGame(st, id, t), id)

\* Handler.HandleForget
ForgetCall(h, gs, st, id, userID, color, t, fails) ==
  IF userID = ""
  THEN [hub |-> h, games |-> gs, store |-> st, g |-> NoRef, result |-> "http400",
        error |-> "missing user id", cleared |-> FALSE,
        get |-> [g |-> NoRef, col |-> Nil, created |-> FALSE, loaded |-> FALSE,
                 loads |-> 0, before |-> NoGame]]
  ELSE The({
    LET out(gs1, st1, result, error, cleared) ==
          [hub |-> r.hub, games |-> gs1, store |-> st1, g |-> r.g,
           result |-> result, error |-> error, cleared |-> cleared, get |-> r]
    IN IF r.err # "" THEN out(r.games, r.store, "http500", "game unavailable", FALSE)
       ELSE IF r.games[r.g].OwnerID # userID
       THEN out(r.games, r.store, "rejected", "not owner", FALSE)
       ELSE out([r.games EXCEPT ![r.g] = [@ EXCEPT !.Clients = EmptyMap, !.OwnerID = "",
                                                     !.OwnerColor = NoColor]],
                markGameForgotten(r.store, id, t, fails), "ok", "", TRUE)
    : r \in {HubGet(h, gs, st, id, userID, color, t, fails)} })

HandleForget(id, userID) ==
  /\ HasFreeRef(games)
  /\ \E color \in ColorDraws(hub, id) :
     \E r \in {ForgetCall(hub, games, store, id, userID, color, now, NoFails)} :
     \E js \in {Joined(Created(joins, r.get), r.g, userID, r.get.col)} :
     \E ks \in {KeptJoined(KeptCreated(kept, r.get), r.g, r.get.before, userID, r.get.col)} :
       Commit(r.hub, r.games, r.store,
              IF r.cleared THEN Unfresh(js, r.g) ELSE js,
              IF r.cleared THEN [ks EXCEPT ![r.g] = NoKept] ELSE ks)

(***************************************************************************)
(* The background sweep of NewHub and the clock                            *)
(***************************************************************************)
\* idle from 24 hours on, the 24th included
IdleFrom(g, t) == t - g.LastSeen >= IdleHours * Hour

Idle(g, t) == t - g.LastSeen > IdleHours * Hour

\* one pass of the cleanup goroutine over h.Games
Swept(h, gs, t) ==
  [id \in GameIds |-> IF h[id] # NoRef /\ Idle(gs[h[id]], t) THEN NoRef ELSE h[id]]

Sweep == Commit(Swept(hub, games, now), games, store, joins, kept)

Tick ==
  /\ now + ClockStep <= MaxNow
  /\ now' = now + ClockStep
  /\ UNCHANGED <<hub, games, store, joins, kept, th, chans, streams, obs>>

Init ==
  /\ hub = [id \in GameIds |-> NoRef]
  /\ games = [r \in Refs |-> NoGame]
  /\ store \in {EmptyStore(TRUE), EmptyStore(FALSE)}
  /\ now = ClockStep
  /\ joins = [r \in Refs |-> NoJoins]
  /\ kept = [r \in Refs |-> NoKept]
  /\ th = [c \in ClientIds |-> IdleThread]
  /\ chans = [w \in Conns |-> <<>>]
  /\ streams = [w \in Conns |-> NoStream]
  /\ obs = NoObs

\* the requests are served one after another
Next ==
  \/ \E id \in GameIds : HandlePage(id)
  \/ \E id \in GameIds, c \in ClientIds : HandleSSE(id, c)
  \/ \E c \in ClientIds : CreateGame(c)
  \/ \E id \in GameIds, c \in ClientIds, t \in ClientIds : HandleRelease(id, c, t)
  \/ \E id \in GameIds, c \in ClientIds : HandleForget(id, c)
  \/ Sweep
  \/ Tick

Spec == Init /\ [][Next]_vars

\* the clients that take a seat where moves are played
Players == {"a", "b"}

\* joins, moves by anyone, eviction and hydration, one request after another
NextMove ==
  \/ \E id \in GameIds, c \in Players : HandleSSE(id, c)
  \/ \E c \in Players : CreateGame(c)
  \/ \E id \in GameIds, c \in ClientIds \cup {""}, uci \in MoveInputs : HandleMove(id, c, uci)
  \/ Sweep
  \/ Tick

SpecMove == Init /\ [][NextMove]_vars

\* every client calls Hub.Get once, the calls run concurrently
NextGet ==
  \/ \E c \in ClientIds, id \in GameIds : GetResolve(c, id)
  \/ \E c \in ClientIds : GetAssign(c)
  \/ \E c \in ClientIds : GetPersist(c)

SpecGet == Init /\ [][NextGet]_vars


(***************************************************************************)
(* Channels of the streaming connections, Broadcast and BroadcastReaction   *)
(***************************************************************************)
\* make(chan []byte, 16) in HandleSSE
QueueCap == 16

\* a send that enqueues whatever the length of the buffer
SendAlways(q, data) == Append(q, data)

\* a send that enqueues at the front of the buffer
SendFront(q, data) == IF Len(q) < QueueCap THEN <<data>> \o q ELSE q

\* select { case ch <- data: default: }
Send(q, data) == IF Len(q) < QueueCap THEN Append(q, data) ELSE q

\* the loop of Broadcast and of BroadcastReaction over g.Watchers, g.Mu held;
\* n numbers the broadcast, which tells equal payloads apart
Cast(g, cs, data, n) ==
  [w \in Conns |-> IF w \in g.Watchers THEN Send(cs[w], [data |-> data, n |-> n]) ELSE cs[w]]

\* a Broadcast that sends the snapshot to one of the watchers only
BroadcastToOne(g, cs, n) ==
  IF g.Watchers = {} THEN cs
  ELSE [cs EXCEPT ![CHOOSE w \in g.Watchers : TRUE] =
          Send(@, [data |-> StateLocked(g), n |-> n])]

\* Game.Broadcast: the channels afterwards
Broadcast(g, cs, n) == Cast(g, cs, StateLocked(g), n)

\* Game.BroadcastReaction: the channels afterwards
BroadcastReaction(g, cs, payload, n) == Cast(g, cs, payload, n)

\* the observations after broadcast n of data on g
ObsCast(o, g, data, n) ==
  [o EXCEPT !.serial = n,
            !.cast = [w \in Conns |-> IF w \in g.Watchers
                                      THEN Append(@[w], [data |-> data, n |-> n]) ELSE @[w]]]

(***************************************************************************)
(* Handler.HandleReact                                                      *)
(***************************************************************************)
\* the senders and emoji of the reaction requests
Senders == {"a", "b"}
Emojis == {"up"}

\* Handler.HandleReact; n numbers its broadcast
ReactCall(h, gs, st, cs, id, sender, emoji, color, t, fails, n) ==
  The({
    LET out(gs1, cs1, result, error, wait) ==
          [hub |-> r.hub, games |-> gs1, store |-> r.store, chans |-> cs1, g |-> r.g,
           result |-> result, error |-> error, wait |-> wait, get |-> r]
    IN IF r.err # "" THEN out(r.games, cs, "http500", "game unavailable", 0)
       ELSE The({
         IF ~c.ok THEN out([r.games EXCEPT ![r.g] = c.g], cs, "rejected", "cooldown", c.wait)
         ELSE out([r.games EXCEPT ![r.g] = c.g],
                  BroadcastReaction(c.g, cs, [Kind |-> "emoji", Emoji |-> emoji,
                                             At |-> t, Sender |-> sender], n),
                  "ok", "", 0)
         : c \in {CanReact(r.games[r.g], sender, t)} })
    : r \in {HubGet(h, gs, st, id, "", color, t, fails)} })

\* the observations after the Hub.Get of a reaction request: a created object has none
ObsFresh(o, get) ==
  IF get.g # NoRef /\ get.created THEN [o EXCEPT !.reacts[get.g] = EmptyMap] ELSE o

\* the observations after CanReact accepted sender at t on object ref
ObsAccept(o, ref, sender, t) ==
  [o EXCEPT !.reacts[ref] =
     Put(@, sender, Append(IF sender \in DOMAIN @ THEN @[sender] ELSE <<>>, t))]

\* the observations after the reaction request answered r
ObsReact(o, r, sender, emoji, t) ==
  IF r.result # "ok" THEN ObsFresh(o, r.get)
  ELSE ObsCast(ObsAccept(ObsFresh(o, r.get), r.g, sender, t), r.games[r.g],
               [Kind |-> "emoji", Emoji |-> emoji, At |-> t, Sender |-> sender],
               o.serial + 1)

HandleReact(id, sender, emoji) ==
  /\ HasFreeRef(games)
  /\ \E color \in ColorDraws(hub, id) :
     \E r \in {ReactCall(hub, games, store, chans, id, sender, emoji, color, now, NoFails,
                         obs.serial + 1)} :
       /\ hub' = r.hub
       /\ games' = Collect(r.hub, r.games, th)
       /\ store' = r.store
       /\ joins' = Reclaim(Created(joins, r.get), games', NoJoins)
       /\ kept' = Reclaim(KeptCreated(kept, r.get), games', NoKept)
       /\ chans' = r.chans
       /\ obs' = ObsReact(obs, r, sender, emoji, now)
       /\ UNCHANGED <<now, th, streams>>

\* the clock advances by one instant
Wait ==
  /\ now + 1 <= ClockStep + MaxSeconds * Second
  /\ now' = now + 1
  /\ UNCHANGED <<hub, games, store, joins, kept, th, chans, streams, obs>>


(***************************************************************************)
(* Handler.HandleReact, step by step: the requests interleave at the locks  *)
(***************************************************************************)
\* a reaction request in flight: its position, its Game and its payload
ReactThread(pc, id, g, body) ==
  [pc |-> pc, id |-> id, g |-> g, col |-> Nil, err |-> "", body |-> body]

\* h.Hub.Get(id, ""): the section under h.Mu; on an error the handler answers and returns
ReactResolve(c, id) ==
  /\ th[c].pc = "idle"
  /\ HasFreeRef(games)
  /\ \E color \in ColorDraws(hub, id) :
     \E r \in {HubGet(hub, games, store, id, "", color, now, NoFails)} :
       /\ th' = [th EXCEPT ![c] =
                   IF r.err # "" THEN IdleThread ELSE ReactThread("check", id, r.g, Nil)]
       /\ hub' = r.hub
       /\ games' = Collect(r.hub, r.games, th')
       /\ store' = r.store
       /\ joins' = Reclaim(Created(joins, r), games', NoJoins)
       /\ kept' = Reclaim(KeptCreated(kept, r), games', NoKept)
       /\ obs' = ObsFresh(obs, r)
       /\ UNCHANGED <<now, chans, streams>>

\* the body decoded and g.CanReact(body.Sender): check and record under g.Mu; a
\* rejected request is answered "cooldown" and returns
ReactCheck(c, sender, emoji) ==
  /\ th[c].pc = "check"
  /\ \E r \in {CanReact(games[th[c].g], sender, now)} :
       /\ th' = [th EXCEPT ![c] =
                   IF r.ok
                   THEN ReactThread("cast", @.id, @.g,
                                    [Kind |-> "emoji", Emoji |-> emoji, At |-> now,
                                     Sender |-> sender])
                   ELSE IdleThread]
       /\ games' = Collect(hub, [games EXCEPT ![th[c].g] = r.g], th')
       /\ joins' = Reclaim(joins, games', NoJoins)
       /\ kept' = Reclaim(kept, games', NoKept)
       /\ obs' = IF r.ok THEN ObsAccept(obs, th[c].g, sender, now) ELSE obs
       /\ UNCHANGED <<hub, store, now, chans, streams>>

\* g.BroadcastReaction(payload), under g.Mu; the request is answered ok and returns
ReactCast(c) ==
  /\ th[c].pc = "cast"
  /\ chans' = BroadcastReaction(games[th[c].g], chans, th[c].body, obs.serial + 1)
  /\ obs' = ObsCast(obs, games[th[c].g], th[c].body, obs.serial + 1)
  /\ th' = [th EXCEPT ![c] = IdleThread]
  /\ games' = Collect(hub, games, th')
  /\ joins' = Reclaim(joins, games', NoJoins)
  /\ kept' = Reclaim(kept, games', NoKept)
  /\ UNCHANGED <<hub, store, now, streams>>

\* concurrent reaction requests while the clock runs
NextReactMany ==
  \/ \E c \in Players, id \in GameIds : ReactResolve(c, id)
  \/ \E c \in Players, s \in Senders, e \in Emojis : ReactCheck(c, s, e)
  \/ \E c \in Players : ReactCast(c)
  \/ Wait

SpecReactMany == Init /\ [][NextReactMany]_vars

(***************************************************************************)
(* Handler.HandleSSE with its stream loop, and the Broadcast goroutines     *)
(***************************************************************************)
\* HandleSSE up to its loop: Hub.Get, AddWatcher of a new channel, the first
\* event, Touch and persistLastSeen
StreamOpen(w, id, clientID) ==
  /\ streams[w].pc = "idle"
  /\ HasFreeRef(games)
  /\ \E color \in ColorDraws(hub, id) :
     \E r \in {SSECall(hub, games, store, id, clientID, color, now, NoFails)} :
       /\ hub' = r.hub
       /\ games' = IF r.err # "" THEN Collect(r.hub, r.games, th)
                   ELSE [Collect(r.hub, r.games, th) EXCEPT ![r.g] = AddWatcher(@, w)]
       /\ store' = r.store
       /\ joins' = Reclaim(Joined(Created(joins, r), r.g, clientID, r.col), games', NoJoins)
       /\ kept' = Reclaim(KeptJoined(KeptCreated(kept, r), r.g, r.before, clientID, r.col),
                          games', NoKept)
       /\ streams' = IF r.err # "" THEN streams
                     ELSE [streams EXCEPT ![w] = [pc |-> "open", g |-> r.g]]
       /\ obs' = ObsFresh(obs, r)
       /\ UNCHANGED <<now, th, chans>>

\* the loop of HandleSSE: case msg := <-ch, written to the client
StreamTake(w) ==
  /\ streams[w].pc = "open"
  /\ chans[w] # <<>>
  /\ Len(obs.taken[w]) < MaxTakes
  /\ chans' = [chans EXCEPT ![w] = Tail(@)]
  /\ obs' = [obs EXCEPT !.taken[w] = Append(@, Head(chans[w]))]
  /\ UNCHANGED <<hub, games, store, now, joins, kept, th, streams>>

\* the loop of HandleSSE: case <-ctx.Done(), return, the deferred RemoveWatcher;
\* the channel goes with the handler
StreamCancel(w) ==
  /\ streams[w].pc = "open"
  /\ streams' = [streams EXCEPT ![w] = [pc |-> "closed", g |-> NoRef]]
  /\ games' = CollectFor(hub, [games EXCEPT ![streams[w].g] = RemoveWatcher(@, w)], th,
                         streams')
  /\ joins' = Reclaim(joins, games', NoJoins)
  /\ kept' = Reclaim(kept, games', NoKept)
  /\ chans' = [chans EXCEPT ![w] = <<>>]
  /\ obs' = [obs EXCEPT !.gone[w] = obs.serial, !.cast[w] = <<>>, !.taken[w] = <<>>]
  /\ UNCHANGED <<hub, store, now, th>>

\* a goroutine started by go g.Broadcast() in HandleMove or HandleRelease runs
\* on Game object ref
BroadcastRun(ref) ==
  /\ games[ref] # NoGame
  /\ obs.serial < MaxCasts
  /\ chans' = Broadcast(games[ref], chans, obs.serial + 1)
  /\ obs' = ObsCast(obs, games[ref], StateLocked(games[ref]), obs.serial + 1)
  /\ UNCHANGED <<hub, games, store, now, joins, kept, th, streams>>

\* the clients of the streaming connections
Watching == {"c"}

\* streams opened, drained and cancelled while snapshots are broadcast
NextWatch ==
  \/ \E w \in Conns, id \in GameIds, c \in Watching : StreamOpen(w, id, c)
  \/ \E w \in Conns : StreamTake(w)
  \/ \E w \in Conns : StreamCancel(w)
  \/ \E ref \in Refs : BroadcastRun(ref)

SpecWatch == Init /\ [][NextWatch]_vars

\* reaction requests served one after another while the clock runs and one
\* stream listens
NextReact ==
  \/ \E id \in GameIds, s \in Senders, e \in Emojis : HandleReact(id, s, e)
  \/ \E id \in GameIds, c \in Watching : StreamOpen("s1", id, c)
  \/ Wait

SpecReact == Init /\ [][NextReact]_vars

(***************************************************************************)
(* The cleanup goroutine against a clock of hours                           *)
(***************************************************************************)
\* the hours that pass between two events
PassHours == {1, IdleHours - 1}

Pass(h) ==
  /\ now + h * Hour <= ClockStep + MaxHours * Hour
  /\ now' = now + h * Hour
  /\ UNCHANGED <<hub, games, store, joins, kept, th, chans, streams, obs>>

\* games created, streams opened and seats released hours apart, and the sweep
NextSweep ==
  \/ CreateGame("a")
  \/ \E id \in GameIds, c \in Players : HandleSSE(id, c)
  \/ \E id \in GameIds, c \in Players, t \in Players : HandleRelease(id, c, t)
  \/ Sweep
  \/ \E h \in PassHours : Pass(h)

SpecSweep == Init /\ [][NextSweep]_vars

(***************************************************************************)
(* Hub.CreateGame against a store whose calls may fail                      *)
(***************************************************************************)
\* the store calls of CreateGame
CreateCalls == {"CreateGame", "EnsureUserSession", "SaveGameState"}

\* Hub.CreateGame; the calls in fails return an error
CreateGameFaulty(ownerID, fails) ==
  /\ HasFreeRef(games)
  /\ \E id \in FreshIds, color \in Colors :
     \E r \in {CreateGameCall(hub, games, store, ownerID, id, color, now, fails)} :
       Commit(r.hub, r.games, r.store,
              IF r.hub[id] = NoRef THEN joins ELSE [joins EXCEPT ![r.hub[id]] = NoJoins],
              IF r.hub[id] = NoRef THEN kept ELSE [kept EXCEPT ![r.hub[id]] = NoKept])

\* games created against a failing store, streams, the sweep
NextCreate ==
  \/ \E c \in ClientIds \cup {""}, fails \in SUBSET CreateCalls : CreateGameFaulty(c, fails)
  \/ \E id \in GameIds, c \in Players : HandleSSE(id, c)
  \/ Sweep
  \/ Tick

SpecCreate == Init /\ [][NextCreate]_vars

(***************************************************************************)
(* The handlers against a store whose calls may fail                        *)
(***************************************************************************)
\* a Broadcast goroutine started by the move of client c and not yet run

\* Handler.HandleMove; the store calls in fails return an error.  The Broadcast
\* goroutine it starts runs later, as CastRun
HandleMoveFaulty(id, clientID, uci, fails) ==
  /\ HasFreeRef(games)
  /\ th[clientID].pc = "idle"
  /\ \E color \in ColorDraws(hub, id) :
     \E r \in {MoveCall(hub, games, store, id, clientID, uci, color, now, fails)} :
       /\ r.result = "ok" =>
            Len(r.get.before.g.moves) < MaxMoves /\ Len(store.moves) < MaxMoves
       /\ th' = IF r.cast
                THEN [th EXCEPT ![clientID] =
                        [pc |-> "broadcast", id |-> id, g |-> r.g, col |-> Nil, err |-> "",
                         number |-> Len(r.state.UCI), uci |-> r.state.UCI[Len(r.state.UCI)]]]
                ELSE th
       /\ hub' = r.hub
       /\ games' = Collect(r.hub, r.games, th')
       /\ store' = r.store
       /\ joins' = Reclaim(Created(joins, r.get), games', NoJoins)
       /\ kept' = Reclaim(KeptCreated(kept, r.get), games', NoKept)
       /\ UNCHANGED <<now, chans, streams, obs>>

\* the goroutine of go g.Broadcast() runs
CastRun(c) ==
  /\ th[c].pc = "broadcast"
  /\ chans' = Broadcast(games[th[c].g], chans, obs.serial + 1)
  /\ obs' = ObsCast(obs, games[th[c].g], StateLocked(games[th[c].g]), obs.serial + 1)
  /\ th' = [th EXCEPT ![c] = IdleThread]
  /\ games' = Collect(hub, games, th')
  /\ joins' = Reclaim(joins, games', NoJoins)
  /\ kept' = Reclaim(kept, games', NoKept)
  /\ UNCHANGED <<hub, store, now, streams>>

\* HandleSSE up to AddWatcher: Hub.Get and the new channel registered under g.Mu
StreamAdd(w, id, clientID) ==
  /\ streams[w].pc = "idle"
  /\ HasFreeRef(games)
  /\ \E color \in ColorDraws(hub, id) :
     \E r \in {HubGet(hub, games, store, id, clientID, color, now, NoFails)} :
       /\ hub' = r.hub
       /\ games' = IF r.err # "" THEN Collect(r.hub, r.games, th)
                   ELSE [Collect(r.hub, r.games, th) EXCEPT ![r.g] = AddWatcher(@, w)]
       /\ store' = r.store
       /\ joins' = Reclaim(Joined(Created(joins, r), r.g, clientID, r.col), games', NoJoins)
       /\ kept' = Reclaim(KeptJoined(KeptCreated(kept, r), r.g, r.before, clientID, r.col),
                          games', NoKept)
       /\ streams' = IF r.err # "" THEN streams
                     ELSE [streams EXCEPT ![w] = [pc |-> "added", g |-> r.g, id |-> id]]
       /\ obs' = ObsFresh(obs, r)
       /\ UNCHANGED <<now, th, chans>>

\* HandleSSE from the snapshot under g.Mu to its loop: the first event written
\* (first), Touch and persistLastSeen
StreamFirst(w) ==
  /\ streams[w].pc = "added"
  /\ streams' = [streams EXCEPT ![w] = [pc |-> "open", g |-> @.g,
                                        first |-> StateLocked(games[@.g])]]
  /\ games' = [games EXCEPT ![streams[w].g] = Touch(@, now)]
  /\ store' = persistLastSeen(store, streams[w].id, now, NoFails)
  /\ UNCHANGED <<hub, now, joins, kept, th, chans, obs>>

\* joins, moves whose store writes may fail, a stream listening
NextPersist ==
  \/ \E id \in GameIds, c \in Players : HandleSSE(id, c)
  \/ \E id \in GameIds, c \in Players, uci \in MoveInputs, fails \in SUBSET MoveWrites :
       HandleMoveFaulty(id, c, uci, fails)
  \/ \E c \in Players : CastRun(c)
  \/ \E id \in GameIds : StreamOpen("s1", id, "c")

SpecPersist == Init /\ [][NextPersist]_vars

\* a game created and joined, the moves of its players with their Broadcast
\* goroutines, a connection being set up and read meanwhile, and one that
\* listens without reading, to which earlier broadcasts were sent
NextStream ==
  \/ CreateGame("a")
  \/ \E id \in GameIds : HandleSSE(id, "b")
  \/ \E id \in GameIds, c \in Players :
       \E uci \in {<<"a", "7", "a", "8">>, <<"g", "6", "g", "7">>, <<"b", "7", "b", "6">>} :
         HandleMoveFaulty(id, c, uci, NoFails)
  \/ \E c \in Players : CastRun(c)
  \/ \E id \in GameIds : StreamAdd("s1", id, "c")
  \/ StreamFirst("s1")
  \/ StreamTake("s1")
  \/ \E id \in GameIds : StreamOpen("s2", id, "c")
  \/ /\ streams["s1"].pc = "idle" /\ streams["s2"].pc = "open"
     /\ games[streams["s2"].g].g.moves = <<>>
     /\ BroadcastRun(streams["s2"].g)

SpecStream == Init /\ [][NextStream]_vars

\* the same, every Broadcast goroutine that was started being scheduled
SpecStreamFair == SpecStream /\ \A c \in Players : WF_vars(CastRun(c))

\* a game created, a stream opened on it, joins and moves with their Broadcast
\* goroutines, hours apart, and the sweep
NextEvict ==
  \/ CreateGame("a")
  \/ \E id \in GameIds : StreamOpen("s1", id, "b")
  \/ \E id \in GameIds, c \in Players : HandleSSE(id, c)
  \/ \E id \in GameIds, c \in Players :
       \E uci \in {<<"g", "6", "g", "7">>, <<"b", "7", "b", "6">>} :
         HandleMoveFaulty(id, c, uci, NoFails)
  \/ \E c \in Players : CastRun(c)
  \/ StreamTake("s1")
  \/ Sweep
  \/ Tick

SpecEvict == Init /\ [][NextEvict]_vars

(***************************************************************************)
(* Hub.Get, call by call, against a store whose calls may fail              *)
(***************************************************************************)
\* h.Mu.Lock() ... h.Mu.Unlock(); LoadGame fails when it is in fails
GetResolveFaulty(c, id, fails) ==
  /\ th[c].pc = "idle"
  /\ HasFreeRef(games)
  /\ \E color \in ColorDraws(hub, id) :
     \E l \in {GetLocked(hub, games, store, id, color, now, fails)} :
       /\ th' = [th EXCEPT ![c] =
                   IF l.err # ""
                   THEN [pc |-> "done", id |-> id, g |-> NoRef, col |-> Nil, err |-> l.err]
                   ELSE [pc |-> "assign", id |-> id, g |-> l.g, col |-> Nil, err |-> ""]]
       /\ hub' = l.hub
       /\ games' = Collect(l.hub, l.games, th')
       /\ joins' = Reclaim(Created(joins, l), games', NoJoins)
       /\ kept' = Reclaim(KeptCreated(kept, l), games', NoKept)
       /\ UNCHANGED <<store, now, chans, streams, obs>>

\* the read of g.OwnerID and h.Store.EnsureUserSession, which fails when it is in fails
GetPersistFaulty(c, fails) ==
  /\ th[c].pc = "persist"
  /\ \E e \in {GetEnsure(store, games[th[c].g], th[c].id, c, th[c].col, now, fails)} :
       /\ store' = e.store
       /\ th' = [th EXCEPT ![c].pc = "done", ![c].err = e.err]
       /\ UNCHANGED <<hub, games, now, joins, kept, chans, streams, obs>>

\* Get has returned and its caller is done with the object
GetReturn(c) ==
  /\ th[c].pc = "done"
  /\ th' = [th EXCEPT ![c] = IdleThread]
  /\ games' = Collect(hub, games, th')
  /\ joins' = Reclaim(joins, games', NoJoins)
  /\ kept' = Reclaim(kept, games', NoKept)
  /\ UNCHANGED <<hub, store, now, chans, streams, obs>>

\* games created, concurrent calls of Get against a failing store, eviction
NextGetFaulty ==
  \/ CreateGame("a")
  \/ \E c \in Players, id \in GameIds, fails \in SUBSET {"LoadGame", "EnsureUserSession"} : GetResolveFaulty(c, id, fails)
  \/ \E c \in Players : GetAssign(c)
  \/ \E c \in Players, fails \in SUBSET {"LoadGame", "EnsureUserSession"} : GetPersistFaulty(c, fails)
  \/ \E c \in Players : GetReturn(c)
  \/ Sweep
  \/ Tick

SpecGetFaulty == Init /\ [][NextGetFaulty]_vars

(***************************************************************************)
(* Handler.HandleStats and the requests with and without a store            *)
(***************************************************************************)
\* Handler.HandleStats with Store.FetchStats: the counts of the game rows
HandleStats(st) ==
  IF ~st.on THEN [ok |-> TRUE, Started |-> 0, Completed |-> 0, Active |-> 0]
  ELSE [ok |-> TRUE,
        Started |-> Cardinality(DOMAIN st.games),
        Completed |-> Cardinality({id \in DOMAIN st.games : st.games[id].CompletedAt # ZeroTime}),
        Active |-> Cardinality({id \in DOMAIN st.games : st.games[id].Active})]

\* every request but the reaction, one after another with a few of the moves,
\* the sweep and the clock
NextRequests ==
  \/ CreateGame("a")
  \/ \E id \in GameIds, c \in Players : HandleSSE(id, c)
  \/ \E id \in GameIds, c \in Players :
       \E uci \in {<<"a", "7", "a", "8">>, <<"g", "6", "g", "7">>, <<"b", "7", "b", "6">>} :
         HandleMove(id, c, uci)
  \/ \E id \in GameIds : HandleRelease(id, "a", "b")
  \/ \E id \in GameIds, c \in Players : HandleForget(id, c)
  \/ Sweep
  \/ Tick

SpecRequests == Init /\ [][NextRequests]_vars

(***************************************************************************)
(* Handler.HandleMove, section by section: the move requests of the        *)
(* players interleave at g.Mu and at the store                              *)
(***************************************************************************)
\* Hub.Get(id, ""), the body decoded, the first snapshot with the client's side
\* under g.Mu, and the three checks; a rejected request is answered and
\* returns, one with a move shorter than two characters aborts
MoveBegin(c, id, uci0) ==
  /\ th[c].pc = "idle"
  /\ hub[id] # NoRef
  /\ \E r \in {HubGet(hub, games, store, id, "", White, now, NoFails)} :
     \E uci \in {appendPromotionIfPawn(r.games[r.g], uci0)} :
       /\ r.err = ""
       /\ th' = [th EXCEPT ![c] =
                   IF Len(uci) < 2 THEN IdleThread
                   ELSE IF MoveCheck(r.games[r.g], c, uci) # "" THEN IdleThread
                   ELSE [pc |-> "apply", id |-> id, g |-> r.g, col |-> r.games[r.g].Clients[c],
                         err |-> "", uci |-> uci, isOwner |-> r.games[r.g].OwnerID = c]]
       /\ UNCHANGED <<hub, games, store, now, joins, kept, chans, streams, obs>>

\* g.Touch() and g.MakeMove(uci), each under g.Mu; the clock stands still, so
\* the two sections are taken as one; a move the engine rejects is answered
MoveApply(c) ==
  /\ th[c].pc = "apply"
  /\ Len(games[th[c].g].g.moves) < MaxMoves
  /\ \E m \in {MakeMove(Touch(games[th[c].g], now), th[c].uci)} :
       /\ th' = [th EXCEPT ![c] = IF m.err # "" THEN IdleThread ELSE [@ EXCEPT !.pc = "snapshot"]]
       /\ games' = Collect(hub, [games EXCEPT ![th[c].g] = m.g], th')
       /\ joins' = Reclaim(joins, games', NoJoins)
       /\ kept' = Reclaim(kept, games', NoKept)
       /\ UNCHANGED <<hub, store, now, chans, streams, obs>>

\* the second snapshot under g.Mu, with moveNumber := len(state.UCI), and g.Outcome()
MoveSnapshot(c) ==
  /\ th[c].pc = "snapshot"
  /\ th' = [th EXCEPT ![c] =
              [pc |-> "record", id |-> @.id, g |-> @.g, col |-> @.col, err |-> "", uci |-> @.uci,
               isOwner |-> @.isOwner, state |-> StateLocked(games[@.g]),
               moveNumber |-> Len(StateLocked(games[@.g]).UCI),
               outcome |-> OutcomeOf(games[@.g].g)]]
  /\ UNCHANGED <<hub, games, store, now, joins, kept, chans, streams, obs>>

\* persistGameState and recordMove; the request is answered ok and returns
MoveRecord(c) ==
  /\ th[c].pc = "record"
  /\ store' = recordMove(persistGameState(store, th[c].id, th[c].state, th[c].outcome, now,
                                          NoFails),
                         th[c].id, c, th[c].moveNumber, th[c].uci, th[c].col, th[c].isOwner,
                         now, NoFails)
  /\ th' = [th EXCEPT ![c] = IdleThread]
  /\ games' = Collect(hub, games, th')
  /\ joins' = Reclaim(joins, games', NoJoins)
  /\ kept' = Reclaim(kept, games', NoKept)
  /\ UNCHANGED <<hub, now, chans, streams, obs>>

\* a game created and joined, the owner releasing the other player, and the
\* move requests of its players in any interleaving
NextMoves ==
  \/ CreateGame("a")
  \/ \E id \in GameIds, c \in Players : HandleSSE(id, c)
  \/ \E id \in GameIds : HandleRelease(id, "a", "b")
  \/ \E id \in GameIds, c \in Players, uci \in MoveInputs : MoveBegin(c, id, uci)
  \/ \E c \in Players : MoveApply(c)
  \/ \E c \in Players : MoveSnapshot(c)
  \/ \E c \in Players : MoveRecord(c)

SpecMoves == Init /\ [][NextMoves]_vars

(***************************************************************************)
(* h.Mu and g.Mu: the cleanup goroutine, run as thread c, and Hub.Get of    *)
(* requests without a client id, lock by lock                               *)
(***************************************************************************)
\* thread t is between h.Mu.Lock() and h.Mu.Unlock()
HoldsHub(t) == th[t].pc \in {"sweep", "visit", "load"}

\* the cleanup goroutine wakes up: h.Mu.Lock(), and the range over h.Games begins
SweepLock ==
  /\ th["c"].pc = "idle"
  /\ \A t \in ClientIds : ~HoldsHub(t)
  /\ th' = [th EXCEPT !["c"] = [pc |-> "sweep", id |-> "", g |-> NoRef, col |-> Nil, err |-> "",
                                todo |-> {id \in GameIds : hub[id] # NoRef}]]
  /\ UNCHANGED <<hub, games, store, now, joins, kept, chans, streams, obs>>

\* g.Mu.Lock() on the next game of the range, h.Mu still held
SweepVisit(id) ==
  /\ th["c"].pc = "sweep"
  /\ id \in th["c"].todo
  /\ th' = [th EXCEPT !["c"].pc = "visit", !["c"].id = id, !["c"].g = hub[id]]
  /\ UNCHANGED <<hub, games, store, now, joins, kept, chans, streams, obs>>

\* idle is computed, g.Mu.Unlock(), and an idle game is deleted from h.Games
SweepLeave ==
  /\ th["c"].pc = "visit"
  /\ hub' = IF Idle(games[th["c"].g], now) THEN [hub EXCEPT ![th["c"].id] = NoRef] ELSE hub
  /\ th' = [th EXCEPT !["c"].pc = "sweep", !["c"].id = "", !["c"].g = NoRef,
                      !["c"].todo = @ \ {th["c"].id}]
  /\ games' = Collect(hub', games, th')
  /\ joins' = Reclaim(joins, games', NoJoins)
  /\ kept' = Reclaim(kept, games', NoKept)
  /\ UNCHANGED <<store, now, chans, streams, obs>>

\* the range is over: h.Mu.Unlock(), and the goroutine sleeps
SweepUnlock ==
  /\ th["c"].pc = "sweep"
  /\ th["c"].todo = {}
  /\ th' = [th EXCEPT !["c"] = IdleThread]
  /\ UNCHANGED <<hub, games, store, now, joins, kept, chans, streams, obs>>

\* Hub.Get(id, ""): h.Mu.Lock() and the lookup; a game that is found, or one
\* that hydrateGame does not ask the store for, is returned after h.Mu.Unlock();
\* otherwise hydrateGame calls h.Store.LoadGame with h.Mu held
GetLock(c, id) ==
  /\ th[c].pc = "idle"
  /\ \A t \in ClientIds : ~HoldsHub(t)
  /\ HasFreeRef(games)
  /\ IF hub[id] = NoRef /\ store.on /\ IsUUID(id)
     THEN /\ th' = [th EXCEPT ![c] = [pc |-> "load", id |-> id, g |-> NoRef, col |-> Nil,
                                      err |-> ""]]
          /\ UNCHANGED <<hub, games, store, now, joins, kept, chans, streams, obs>>
     ELSE \E color \in ColorDraws(hub, id) :
          \E l \in {GetLocked(hub, games, store, id, color, now, NoFails)} :
            /\ hub' = l.hub
            /\ games' = Collect(l.hub, l.games, th)
            /\ joins' = Reclaim(Created(joins, l), games', NoJoins)
            /\ kept' = Reclaim(KeptCreated(kept, l), games', NoKept)
            /\ UNCHANGED <<store, now, th, chans, streams, obs>>

\* LoadGame returns: the game is hydrated and published, h.Mu.Unlock()
GetLoad(c) ==
  /\ th[c].pc = "load"
  /\ \E color \in Colors :
     \E l \in {GetLocked(hub, games, store, th[c].id, color, now, NoFails)} :
       /\ th' = [th EXCEPT ![c] = IdleThread]
       /\ hub' = l.hub
       /\ games' = Collect(l.hub, l.games, th')
       /\ joins' = Reclaim(Created(joins, l), games', NoJoins)
       /\ kept' = Reclaim(KeptCreated(kept, l), games', NoKept)
       /\ UNCHANGED <<store, now, chans, streams, obs>>

\* games created, requests resolving them, the cleanup goroutine and the clock
NextLocks ==
  \/ (\A t \in ClientIds : ~HoldsHub(t)) /\ CreateGame("a")
  \/ \E c \in Players, id \in GameIds : GetLock(c, id)
  \/ \E c \in Players : GetLoad(c)
  \/ SweepLock
  \/ \E id \in GameIds : SweepVisit(id)
  \/ SweepLeave
  \/ SweepUnlock
  \/ Tick

SpecLocks == Init /\ [][NextLocks]_vars

(***************************************************************************)
(* The lock operations of every handler and goroutine, in program order     *)
(***************************************************************************)
\* h.Mu and the g.Mu of two Game objects
HubMu == "h.Mu"
GameMus == {"g1.Mu", "g2.Mu"}

\* m.Lock() ... m.Unlock() with no lock operation in between
Section(m) == << <<"lock", m>>, <<"unlock", m>> >>

\* n sections on m, one after another
RECURSIVE Sections(_, _)
Sections(m, n) == IF n = 0 THEN <<>> ELSE Section(m) \o Sections(m, n - 1)

\* a forget that deletes the session from the registry with g.Mu held
HandlerLocksNested(m) ==
  { Section(HubMu) \o Sections(m, 2) \o
    << <<"lock", m>>, <<"lock", HubMu>>, <<"unlock", HubMu>>, <<"unlock", m>> >> }

\* the lock operations of a request on the Game object whose lock is m, by
\* handler and by the place it returns at:
\*   Hub.Get              h.Mu; with a client id, g.Mu in assignColor
\*   HandlePage           Get
\*   Hub.CreateGame       h.Mu; with a store g.Mu for the snapshot; h.Mu again
\*                        when a store call fails
\*   HandleSSE            Get, AddWatcher, snapshot, Touch, RemoveWatcher
\*   HandleMove           Get, snapshot, Touch, MakeMove, snapshot, Outcome
\*   Broadcast            g.Mu
\*   HandleReact          Get, CanReact, BroadcastReaction
\*   HandleRelease        Get, owner read, RemoveClient
\*   HandleForget         Get, owner read, Clients cleared
HandlerLocks(m) ==
  { Section(HubMu) \o Sections(m, n) : n \in 0..6 } \cup
  { Section(HubMu) \o Section(HubMu),
    Section(HubMu) \o Section(m) \o Section(HubMu) }

\* the cleanup goroutine: h.Mu held over the range, g.Mu of each game inside
SweepLocks ==
  << <<"lock", HubMu>> >> \o Section("g1.Mu") \o Section("g2.Mu") \o << <<"unlock", HubMu>> >>

\* a request or goroutine in flight: the lock operations before it, the locks it holds
LockThread(ops, held) ==
  [pc |-> "locks", id |-> "", g |-> NoRef, col |-> Nil, err |-> "", ops |-> ops, held |-> held]

\* the locks thread t holds
Held(t) == IF th[t].pc = "locks" THEN th[t].held ELSE {}

\* thread t is at m.Lock()
AtLock(t, m) == th[t].pc = "locks" /\ Head(th[t].ops) = <<"lock", m>>

\* a request arrives, a goroutine is started, the cleanup goroutine wakes up
LockStart(t, ops) ==
  /\ th[t].pc = "idle"
  /\ th' = [th EXCEPT ![t] = LockThread(ops, {})]
  /\ UNCHANGED <<hub, games, store, now, joins, kept, chans, streams, obs>>

\* the next lock operation of thread t: Lock() returns once no thread holds
\* the lock, Unlock() at once; after its last operation the thread is done
LockStep(t) ==
  /\ th[t].pc = "locks"
  /\ \E op \in {Head(th[t].ops)} :
       /\ op[1] = "lock" => \A u \in ClientIds : op[2] \notin Held(u)
       /\ th' = [th EXCEPT ![t] =
                   IF Len(@.ops) = 1 THEN IdleThread
                   ELSE LockThread(Tail(@.ops),
                                   IF op[1] = "lock" THEN @.held \cup {op[2]}
                                   ELSE @.held \ {op[2]})]
  /\ UNCHANGED <<hub, games, store, now, joins, kept, chans, streams, obs>>

\* requests and Broadcast goroutines on two sessions, and the cleanup goroutine
NextLocking ==
  \/ \E t \in Players, m \in GameMus : \E ops \in HandlerLocks(m) : LockStart(t, ops)
  \/ LockStart("c", SweepLocks)
  \/ \E t \in ClientIds : LockStep(t)

\* a Lock() that can return infinitely often does return (sync.Mutex hands the
\* lock to a waiter that has waited long), an Unlock() is reached
SpecLocking ==
  Init /\ [][NextLocking]_vars /\ \A t \in ClientIds : SF_vars(LockStep(t))
(***************************************************************************)
(* Properties                                                               *)
(***************************************************************************)
\* the Game objects alive
Live == {r \in Refs : games[r] # NoGame}
\* the keys of g.Clients
Seats(g) == DOMAIN g.Clients

\* C1: in every reachable state, whatever joins, releases, forgets, evictions
\* and hydrations led to it, the Clients map of a session has at most two
\* entries and no two distinct clients hold the same side.
C1_TwoSeatsDistinctSides ==
  \A r \in Live :
    /\ Cardinality(Seats(games[r])) <= 2
    /\ \A c, d \in Seats(games[r]) : c # d => games[r].Clients[c] # games[r].Clients[d]

\* a session reached where two clients sit on the same side
C1_SharedSide ==
  \E r \in Live : \E c, d \in Seats(games[r]) : c # d /\ games[r].Clients[c] = games[r].Clients[d]

\* C2: in every reachable state of a session, a non-empty OwnerID is a key of
\* Clients and Clients[OwnerID] is OwnerColor.
C2_OwnerHoldsOwnerSide ==
  \A r \in Live :
    games[r].OwnerID # "" =>
      /\ games[r].OwnerID \in Seats(games[r])
      /\ games[r].Clients[games[r].OwnerID] = games[r].OwnerColor

\* a session hydrated from the store whose owner holds no seat
C2_OwnerWithoutSeat ==
  \E r \in Live : games[r].OwnerID # "" /\ games[r].OwnerID \notin Seats(games[r])

\* C3: on a new session, of the distinct clients that join one after another
\* through Hub.Get the first is the owner and gets the owner side, the second
\* gets the opposite side, every further one gets no side and no seat.
C3_JoinOrder ==
  \A r \in Live :
    joins[r].fresh =>
      LET log == joins[r].log
          g == games[r]
      IN /\ Len(log) >= 1 => /\ log[1].col \in Colors
                             /\ log[1].col = g.OwnerColor
                             /\ g.OwnerID = log[1].c
         /\ Len(log) >= 2 => log[2].col = Opp(log[1].col)
         /\ \A i \in 1..Len(log) :
              IF i <= 2
              THEN log[i].c \in Seats(g) /\ g.Clients[log[i].c] = log[i].col
              ELSE log[i].col = Nil /\ log[i].c \notin Seats(g)
         /\ Cardinality(Seats(g)) = IF Len(log) < 2 THEN Len(log) ELSE 2

\* a new session three distinct clients have joined, the third as a spectator
C3_ThreeJoined ==
  \E r \in Live : joins[r].fresh /\ Len(joins[r].log) = 3 /\ joins[r].log[3].col = Nil

\* C4: a client that is a key of Clients gets the side it has from every
\* further Hub.Get, which leaves Clients as it was; and no step of any request
\* changes the side of a client that keeps its seat.
C4_KnownClientKeepsSide ==
  [][\A id \in GameIds :
       hub[id] # NoRef =>
         \A c \in Seats(games[hub[id]]) :
           LET g == games[hub[id]]
               r == HubGet(hub, games, store, id, c, White, now, NoFails)
           IN /\ r.col = g.Clients[c]
              /\ r.games[r.g].Clients = g.Clients
              /\ (games'[hub[id]] # NoGame /\ c \in Seats(games'[hub[id]]))
                   => games'[hub[id]].Clients[c] = g.Clients[c]]_vars

\* both seats taken, a third client turned away, and the second participant
\* asking again gets its side
C4_SeatedAsksAgain ==
  \E id \in GameIds :
    /\ hub[id] # NoRef
    /\ joins[hub[id]].fresh /\ Len(joins[hub[id]].log) = 3
    /\ LET c == joins[hub[id]].log[2].c
       IN HubGet(hub, games, store, id, c, White, now, NoFails).col = joins[hub[id]].log[2].col

\* the clients whose concurrent Hub.Get is past assignColor, and those given a side
Assigned == {c \in ClientIds : th[c].pc \in {"persist", "done"}}
Sided == {c \in Assigned : th[c].col # Nil}

\* C5: however the concurrent Hub.Get calls of N distinct clients on one
\* session id interleave, min(N,2) of them get a side, the sides are opposite,
\* one of them is the owner (with the owner side), the others get nil.
C5_ConcurrentJoins ==
  /\ Cardinality(Sided) = IF Cardinality(Assigned) < 2 THEN Cardinality(Assigned) ELSE 2
  /\ \A c, d \in Sided : c # d => th[c].col = Opp(th[d].col)
  /\ \A c \in Sided :
       LET g == games[th[c].g]
       IN /\ g.OwnerID \in Sided
          /\ th[g.OwnerID].col = g.OwnerColor
          /\ g.Clients[c] = th[c].col
          /\ Cardinality({o \in Sided : o = g.OwnerID}) = 1

\* three concurrent calls have returned, one of them with no side
C5_ThreeReturned ==
  /\ \A c \in ClientIds : th[c].pc = "done"
  /\ Cardinality(Sided) = 2

\* C6: however the concurrent Hub.Get calls on an unseen session id
\* interleave, every caller holds the object the registry maps the id to,
\* there is one object for the id, and hydrateGame ran on it at most once.
C6_OneObjectPerId ==
  /\ \A c \in ClientIds : th[c].pc \in {"assign", "persist", "done"} /\ th[c].err = ""
                           => th[c].g # NoRef /\ th[c].g = hub[th[c].id]
  /\ \A id \in GameIds : Cardinality({r \in Live : games[r].ID = id}) <= 1
  /\ \A r \in Live : joins[r].loads <= 1

\* with a store, three callers past the registry lock hold one object
C6_ThreeResolved ==
  /\ store.on
  /\ \A c \in ClientIds : th[c].pc # "idle" /\ th[c].g = hub["g1"]
  /\ joins[hub["g1"]].loads = 1

\* C7: once the owner was removed while another participant was present, the
\* participant promoted gets the side it had from its next Hub.Get, is the
\* owner with OwnerColor that side, and a new client taking the free seat gets
\* the opposite side.
C7_PromotedKeepsSide ==
  \A id \in GameIds :
    hub[id] # NoRef /\ kept[hub[id]].who # "" =>
      LET g == games[hub[id]]
          w == kept[hub[id]].who
          s == kept[hub[id]].side
          r == HubGet(hub, games, store, id, w, White, now, NoFails)
      IN /\ s \in Colors
         /\ r.col = s
         /\ r.games[r.g].OwnerID = w
         /\ r.games[r.g].OwnerColor = s
         /\ r.games[r.g].Clients = g.Clients
         /\ \A d \in ClientIds \ Seats(g) :
              Cardinality(Seats(g)) < 2 =>
                HubGet(hub, games, store, id, d, White, now, NoFails).col = Opp(s)

\* the owner was removed, the participant left is the owner, and a new client
\* has taken the other seat since
C7_PromotedAndJoined ==
  \E id \in GameIds :
    /\ hub[id] # NoRef
    /\ kept[hub[id]].who # "" /\ kept[hub[id]].joined
    /\ \E d \in Seats(games[hub[id]]) \ {kept[hub[id]].who} :
         games[hub[id]].Clients[d] = Opp(kept[hub[id]].side)

\* C8: a release by the owner removes the target from Clients and leaves the
\* other seats alone; a target that is not the owner leaves OwnerID as it was;
\* an owner removed passes ownership to a remaining client, or leaves OwnerID
\* empty when none remains.
C8_RemoveClient ==
  \A id \in GameIds :
    hub[id] # NoRef =>
      \A c, t \in ClientIds : \A pick \in Picks(games[hub[id]], t) :
        LET g == games[hub[id]]
            r == ReleaseCall(hub, games, store, id, c, t, pick, White, now, NoFails)
            g2 == r.games[r.g]
            rest == Seats(g) \ {t}
        IN r.removed =>
             /\ t \notin Seats(g2)
             /\ Seats(g2) = rest
             /\ \A d \in rest : g2.Clients[d] = g.Clients[d]
             /\ g.OwnerID # t => g2.OwnerID = g.OwnerID /\ g2.OwnerColor = g.OwnerColor
             /\ (g.OwnerID = t /\ rest # {}) =>
                  g2.OwnerID \in rest /\ g2.OwnerColor = g2.Clients[g2.OwnerID]
             /\ (g.OwnerID = t /\ rest = {}) => g2.OwnerID = ""

\* the owner has been removed and the one participant left owns the session
C8_OwnerRemoved ==
  \E r \in Live :
    /\ kept[r].who # "" /\ ~kept[r].joined
    /\ Seats(games[r]) = {kept[r].who}
    /\ games[r].OwnerID = kept[r].who

\* the reasons HandleMove gives when one of its three checks fails
CheckErrors == {"unknown client", "wrong color", "not your turn"}

\* C9: a move request changes the position only if the client is a key of
\* Clients, the piece on the source square is of its side and that side is to
\* move; a request failing one of these is answered with the reason of the
\* first it fails and the snapshot of the state, and changes no position.
C9_MoveAuthorization ==
  \A id \in GameIds :
    hub[id] # NoRef =>
      \A c \in ClientIds, uci \in MoveInputs :
        LET g == games[hub[id]]
            r == MoveCall(hub, games, store, id, c, uci, White, now, NoFails)
            sq == IF Len(uci) < 2 THEN NoSquare ELSE parseSquare(SubSeq(uci, 1, 2))
            v == IF c \notin Seats(g) THEN "unknown client"
                 ELSE IF PieceAt(g.g.board, sq).color # g.Clients[c] THEN "wrong color"
                 ELSE IF g.g.turn # g.Clients[c] THEN "not your turn"
                 ELSE ""
        IN /\ r.games[r.g].g # g.g => v = ""
           /\ v # "" => /\ r.result = "rejected"
                        /\ r.error = v
                        /\ r.state = StateLocked(g)
                        /\ r.games[r.g].g = g.g

\* C10: a move the engine rejects leaves the position and the history as they
\* were, the answer names a reason, and every move that would have been
\* accepted before is accepted after it, with the same outcome.
C10_EngineRejection ==
  \A id \in GameIds :
    hub[id] # NoRef =>
      \A c \in ClientIds, uci \in MoveInputs :
        LET g == games[hub[id]]
            r == MoveCall(hub, games, store, id, c, uci, White, now, NoFails)
        IN (r.result = "rejected" /\ r.error \notin CheckErrors) =>
             /\ r.error # ""
             /\ MakeMove(g, appendPromotionIfPawn(g, uci)).err = r.error
             /\ r.games[r.g].g = g.g
             /\ r.store = store
             /\ \A c2 \in ClientIds, u2 \in MoveInputs :
                  LET r1 == MoveCall(hub, games, store, id, c2, u2, White, now, NoFails)
                      r2 == MoveCall(r.hub, r.games, r.store, id, c2, u2, White, now, NoFails)
                  IN r1.result = "ok" =>
                       r2.result = "ok" /\ r2.games[r2.g].g = r1.games[r1.g].g

\* a move has been played, and the side to move has a move the engine
\* rejects and a move it accepts after that rejection
C10_RejectedThenAccepted ==
  \E id \in GameIds :
    /\ hub[id] # NoRef
    /\ Len(games[hub[id]].g.moves) >= 1
    /\ \E c \in ClientIds, uci, u2 \in MoveInputs :
         LET r == MoveCall(hub, games, store, id, c, uci, White, now, NoFails)
         IN /\ r.result = "rejected" /\ r.error = "invalid move"
            /\ MoveCall(r.hub, r.games, r.store, id, c, u2, White, now, NoFails).result = "ok"

\* a session where a move string shorter than two characters makes HandleMove
\* abort before any of its checks
C9_ShortMoveAborts ==
  \E id \in GameIds :
    /\ hub[id] # NoRef
    /\ \E c \in Seats(games[hub[id]]), uci \in MoveInputs :
         /\ Len(uci) < 2
         /\ MoveCall(hub, games, store, id, c, uci, White, now, NoFails).result = "panic"

\* C11: whatever the move string of a request with a non-empty client id,
\* HandleMove completes with a response: ok, or a rejection with a reason; it
\* never aborts without one.
C11_MoveAlwaysAnswered ==
  \A id \in GameIds :
    hub[id] # NoRef =>
      \A c \in ClientIds, uci \in MoveInputs :
        LET r == MoveCall(hub, games, store, id, c, uci, White, now, NoFails)
        IN /\ r.result \in {"ok", "rejected"}
           /\ r.result = "rejected" => r.error # ""

\* a session where the one-character move of a client that holds no seat
\* makes HandleMove abort
C11_UnseatedMoveAborts ==
  \E id \in GameIds :
    /\ hub[id] # NoRef
    /\ \E c \in ClientIds \ Seats(games[hub[id]]) :
         MoveCall(hub, games, store, id, c, <<"g">>, White, now, NoFails).result = "panic"

\* the accepted reactions of sender s observed on Game object r
Accepted(r, s) == IF s \in DOMAIN obs.reacts[r] THEN obs.reacts[r][s] ELSE <<>>

\* C12: on every session, CanReact accepts a sender's reaction exactly when
\* that sender has no accepted reaction in the 5 seconds before; accepted
\* reactions of a sender are 5 seconds or more apart; a rejection changes
\* nothing, an acceptance changes the record of that sender alone.
C12_CooldownPerSender ==
  \A r \in Live : \A s \in Senders :
    LET log == Accepted(r, s)
        c == CanReact(games[r], s, now)
    IN /\ c.ok <=> (log = <<>> \/ now - log[Len(log)] >= CooldownSeconds * Second)
       /\ \A i \in 1..(Len(log) - 1) : log[i + 1] - log[i] >= CooldownSeconds * Second
       /\ ~c.ok => c.g = games[r]
       /\ c.ok => \A o \in DOMAIN games[r].LastReact \ {s} :
                    c.g.LastReact[o] = games[r].LastReact[o]

\* a sender with a second reaction accepted 5 seconds or more after its first,
\* while another sender's reaction would be rejected
C12_SecondAccepted ==
  \E r \in Live : \E s, o \in Senders :
    /\ s # o
    /\ Len(Accepted(r, s)) = 2
    /\ Len(Accepted(r, o)) = 1
    /\ ~CanReact(games[r], o, now).ok

\* C13: a reaction rejected more than 0 and less than 5 seconds after the
\* sender's last accepted one quotes a wait of one second or more.
C13_PositiveWait ==
  \A r \in Live : \A s \in DOMAIN games[r].LastReact :
    LET elapsed == now - games[r].LastReact[s]
        c == CanReact(games[r], s, now)
    IN (0 < elapsed /\ elapsed < CooldownSeconds * Second) => ~c.ok /\ c.wait >= 1

\* a reaction rejected in the last second of the cooldown, with a wait of 0
C13_ZeroWait ==
  \E r \in Live : \E s \in DOMAIN games[r].LastReact :
    /\ now - games[r].LastReact[s] > (CooldownSeconds - 1) * Second
    /\ ~CanReact(games[r], s, now).ok
    /\ CanReact(games[r], s, now).wait = 0

\* C14: under every interleaving of concurrent reaction requests, the accepted
\* reactions of one sender on one session are 5 seconds or more apart, and the
\* instant the session holds for the sender is that of the last accepted one.
C14_OneAcceptedPerWindow ==
  \A r \in Live : \A s \in Senders :
    LET log == Accepted(r, s)
    IN /\ \A i \in 1..(Len(log) - 1) : log[i + 1] - log[i] >= CooldownSeconds * Second
       /\ log # <<>> => /\ s \in DOMAIN games[r].LastReact
                        /\ games[r].LastReact[s] = log[Len(log)]

\* two requests in flight on one session at one instant: the first accepted
\* and not yet broadcast, the second about to be rejected for the same sender
C14_RacingPairSplit ==
  \E c, d \in ClientIds :
    /\ c # d
    /\ th[c].pc = "cast" /\ th[d].pc = "check"
    /\ th[c].g = th[d].g
    /\ th[c].body.At = now
    /\ ~CanReact(games[th[d].g], th[c].body.Sender, now).ok

\* the Game objects in memory, in the registry or held by a request
Objects == {r \in Refs : games[r] # NoGame}

\* the streaming connections registered on Game object r
Registered(r) == {w \in Conns : streams[w].pc = "open" /\ streams[w].g = r}

\* what a broadcast of data numbered n on g has to leave in the channels
Delivered(g, data, n) ==
  [w \in Conns |-> IF w \in g.Watchers /\ Len(chans[w]) < QueueCap
                   THEN Append(chans[w], [data |-> data, n |-> n]) ELSE chans[w]]

\* C15: no channel ever holds more than 16 messages, and on every Game object
\* a broadcast can run whatever the channels hold: Broadcast and
\* BroadcastReaction append the message to every watcher with free space and
\* leave the full watchers and every other channel as they are.
C15_BroadcastNeverBlocks ==
  /\ \A w \in Conns : Len(chans[w]) <= QueueCap
  /\ \A r \in Objects :
       /\ obs.serial < MaxCasts => ENABLED BroadcastRun(r)
       /\ Broadcast(games[r], chans, obs.serial + 1)
            = Delivered(games[r], StateLocked(games[r]), obs.serial + 1)
       /\ \A s \in Senders, e \in Emojis :
            LET payload == [Kind |-> "emoji", Emoji |-> e, At |-> now, Sender |-> s]
            IN BroadcastReaction(games[r], chans, payload, obs.serial + 1)
                 = Delivered(games[r], payload, obs.serial + 1)

\* the last broadcast was dropped for a watcher whose channel is full and was
\* delivered to another watcher of the same Game object
C15_DroppedForOneOnly ==
  \E w, v \in Conns :
    /\ streams[w].pc = "open" /\ streams[v].pc = "open" /\ streams[w].g = streams[v].g
    /\ Len(chans[w]) = QueueCap /\ chans[v] # <<>>
    /\ obs.cast[w] # <<>>
    /\ obs.cast[w][Len(obs.cast[w])].n = obs.serial
    /\ chans[w][QueueCap].n < obs.serial
    /\ chans[v][Len(chans[v])].n = obs.serial

\* s is t with some of its elements left out
RECURSIVE IsSubseq(_, _)
IsSubseq(s, t) ==
  IF s = <<>> THEN TRUE
  ELSE IF t = <<>> THEN FALSE
  ELSE IF Head(s) = Head(t) THEN IsSubseq(Tail(s), Tail(t))
  ELSE IsSubseq(s, Tail(t))

\* C16: for every open stream, the messages taken from its channel followed by
\* those still in it are, in order and without repetition, messages broadcast
\* on its session while it was registered; none is missing unless more than 16
\* were broadcast.
C16_TakenInSendOrder ==
  \A w \in Conns : streams[w].pc = "open" =>
    LET got == obs.taken[w] \o chans[w]
    IN /\ IsSubseq(got, obs.cast[w])
       /\ \A i, j \in 1..Len(got) : i < j => got[i].n < got[j].n
       /\ Len(obs.cast[w]) <= QueueCap => got = obs.cast[w]

\* a stream that took two messages, has more waiting and missed one
C16_TakenAfterDrop ==
  \E w \in Conns :
    /\ streams[w].pc = "open"
    /\ Len(obs.taken[w]) = 2
    /\ chans[w] # <<>>
    /\ Len(obs.cast[w]) > Len(obs.taken[w]) + Len(chans[w])

\* C17: a stream that is not open is in the Watchers of no Game object and
\* nothing is in its channel; the Watchers of a Game object are the open
\* streams on it and its snapshot counts them; an open stream can always be
\* cancelled; removing a watcher twice, or one that is not registered, is the
\* same as removing it once, or not at all.
C17_CancelRemovesWatcher ==
  /\ \A w \in Conns : streams[w].pc # "open" => chans[w] = <<>>
  /\ \A w \in Conns : streams[w].pc = "open" => ENABLED StreamCancel(w)
  /\ \A r \in Objects :
       /\ games[r].Watchers = Registered(r)
       /\ StateLocked(games[r]).Watchers = Cardinality(Registered(r))
       /\ \A w \in Conns :
            /\ RemoveWatcher(RemoveWatcher(games[r], w), w) = RemoveWatcher(games[r], w)
            /\ w \notin games[r].Watchers => RemoveWatcher(games[r], w) = games[r]

\* a cancelled stream, and a broadcast after its cancellation waiting in the
\* channel of a stream that is still open
C17_CastAfterCancel ==
  \E w, v \in Conns :
    /\ streams[w].pc = "closed" /\ streams[v].pc = "open"
    /\ obs.gone[w] >= 1
    /\ chans[v] # <<>>
    /\ chans[v][Len(chans[v])].n > obs.gone[w]

\* C18: a sweep takes out of the registry the sessions whose LastSeen is more
\* than 24 hours before now and no other, and a step that takes a session out
\* of the registry leaves the store as it is.
C18_SweepEvictsIdle ==
  /\ [](\A id \in GameIds :
          LET after == Swept(hub, games, now)[id]
          IN IF hub[id] = NoRef THEN after = NoRef
             ELSE IF now - games[hub[id]].LastSeen >= IdleHours * Hour + 1 THEN after = NoRef
             ELSE after = hub[id])
  /\ [][(\E id \in GameIds : hub[id] # NoRef /\ hub'[id] = NoRef)
          => /\ store' = store
             /\ \A id \in GameIds :
                  hub'[id] = IF hub[id] # NoRef
                                /\ now - games[hub[id]].LastSeen > IdleHours * Hour
                             THEN NoRef ELSE hub[id]]_vars

\* a stored session out of the registry 25 hours after it was last seen
C18_EvictedAfter25Hours ==
  \E id \in GameIds :
    /\ hub[id] = NoRef
    /\ store.on /\ id \in DOMAIN store.games
    /\ now - store.games[id].LastSeen = (IdleHours + 1) * Hour

\* C19: after a request on a session (a stream opened, with the client id sent
\* or the one generated for it, a move accepted or rejected, a reaction, a release) a sweep that runs
\* within the next 24 hours leaves the session in the registry.
C19_RecentRequestKeeps ==
  \A id \in GameIds : hub[id] # NoRef =>
    \A d \in {1, IdleHours - 1, IdleHours} :
      LET kept1(r) == r.hub[id] # NoRef => Swept(r.hub, r.games, now + d * Hour)[id] # NoRef
      IN /\ \A c \in ClientIds :
              kept1(SSECall(hub, games, store, id, c, White, now, NoFails))
         /\ \A c \in ClientIds, uci \in MoveInputs :
              LET r == MoveCall(hub, games, store, id, c, uci, White, now, NoFails)
              IN r.result \in {"ok", "rejected"} => kept1(r)
         /\ \A s \in Senders, e \in Emojis :
              kept1(ReactCall(hub, games, store, chans, id, s, e, White, now, NoFails,
                              obs.serial + 1))
         /\ \A c \in ClientIds, target \in ClientIds :
              kept1(ReleaseCall(hub, games, store, id, c, target, "", White, now, NoFails))

\* a session seen 23 hours ago: a reaction is accepted now, and the sweep two
\* hours later takes the session out of the registry
C19_ReactionThenEvicted ==
  \E id \in GameIds :
    /\ hub[id] # NoRef
    /\ now - games[hub[id]].LastSeen = (IdleHours - 1) * Hour
    /\ LET r == ReactCall(hub, games, store, chans, id, "a", "up", White, now, NoFails,
                          obs.serial + 1)
       IN r.result = "ok" /\ Swept(r.hub, r.games, now + 2 * Hour)[id] = NoRef

\* C20: with a store configured, a CreateGame one of whose store calls fails
\* returns an error and leaves the registry as it was, without the new id; a
\* CreateGame that returns no error leaves the session in the registry with
\* the owner as OwnerID and as its one client on OwnerColor, and the store
\* holds the game row and the owner's participant record.
C20_CreateAllOrNothing ==
  store.on =>
    \A owner \in ClientIds, id \in FreshIds, color \in Colors, fails \in SUBSET CreateCalls :
      (IsUUID(owner) /\ HasFreeRef(games)) =>
        LET r == CreateGameCall(hub, games, store, owner, id, color, now, fails)
        IN /\ fails # {} => r.err # "" /\ r.hub = hub /\ r.hub[id] = NoRef
           /\ fails = {} => r.err = ""
           /\ r.err = "" =>
                /\ r.id = id /\ r.hub[id] # NoRef
                /\ r.games[r.hub[id]].OwnerID = owner
                /\ r.games[r.hub[id]].Clients = Put(EmptyMap, owner, r.games[r.hub[id]].OwnerColor)
                /\ r.color = r.games[r.hub[id]].OwnerColor
                /\ id \in DOMAIN r.store.games
                /\ r.store.games[id].OwnerID = owner
                /\ <<id, owner>> \in DOMAIN r.store.sessions

\* a creation rolled back after its game row was written: the row is in the
\* store, no participant record is, and the registry does not hold the id
C20_RolledBack ==
  \E id \in GameIds :
    /\ hub[id] = NoRef
    /\ store.on /\ id \in DOMAIN store.games
    /\ \A k \in DOMAIN store.sessions : k[1] # id

\* C21: whatever store writes of HandleMove fail, the request is answered as
\* with a store whose writes succeed and leaves the same objects in memory; an
\* accepted move is answered ok with the snapshot of the object after the
\* move, the move is the last of the object's moves, and a Broadcast is started.
C21_MoveSurvivesStoreFailure ==
  \A id \in GameIds, c \in Players, uci \in MoveInputs :
    (hub[id] # NoRef /\ HasFreeRef(games)) =>
      LET good == MoveCall(hub, games, store, id, c, uci, White, now, NoFails)
          before == games[hub[id]]
          sent == appendPromotionIfPawn(before, uci)
          accepted == /\ Len(uci) >= 2
                      /\ MoveCheck(before, c, sent) = ""
                      /\ MakeMove(Touch(before, now), sent).err = ""
      IN \A fails \in SUBSET MoveWrites :
           \A r \in {MoveCall(hub, games, store, id, c, uci, White, now, fails)} :
             /\ r.result = good.result /\ r.state = good.state
             /\ r.games = good.games /\ r.hub = good.hub /\ r.cast = good.cast
             /\ accepted =>
                  /\ r.result = "ok" /\ r.cast
                  /\ r.state = StateLocked(r.games[r.g])
                  /\ r.games[r.g].g.moves = Append(before.g.moves, sent)

\* an accepted move in memory with no row in the move table of a store that
\* is configured, and its Broadcast goroutine started
C21_AppliedUnrecorded ==
  \E c \in Players :
    /\ th[c].pc = "broadcast"
    /\ Len(games[th[c].g].g.moves) = 1
    /\ store.on /\ store.moves = <<>>

\* C22: a client that joins a session in memory and is given a side gets no
\* error from Get and its stream opens, although the upsert of its
\* participant session fails.
C22_JoinSurvivesOutage ==
  \A id \in GameIds, c \in ClientIds :
    (hub[id] # NoRef /\ HasFreeRef(games)) =>
      LET get == HubGet(hub, games, store, id, c, White, now, {"EnsureUserSession"})
          sse == SSECall(hub, games, store, id, c, White, now, {"EnsureUserSession"})
      IN get.col # Nil => get.err = "" /\ sse.err = ""

\* a call of Get that gave its client a side in memory and returned an error
C22_SeatedWithError ==
  \E c \in Players :
    /\ th[c].pc = "done" /\ th[c].err # ""
    /\ th[c].g # NoRef /\ th[c].col # Nil
    /\ c \in DOMAIN games[th[c].g].Clients

\* C26: a Get that has to create the session and whose load fails with an
\* error other than not-found returns the error and leaves the registry and
\* the objects as they were; when the store has no row, or none is
\* configured, Get publishes a fresh session and returns no error; no call of
\* Get that ended with a load error holds an object.
C26_FailedHydrationUnpublished ==
  /\ \A c \in Players : (th[c].pc = "done" /\ th[c].g = NoRef) => hub[th[c].id] = NoRef \/ th[c].err # ""
  /\ \A id \in GameIds, c \in ClientIds \cup {""}, color \in Colors :
       (hub[id] = NoRef /\ HasFreeRef(games)) =>
         LET bad == HubGet(hub, games, store, id, c, color, now, {"LoadGame"})
             good == HubGet(hub, games, store, id, c, color, now, NoFails)
         IN /\ (store.on /\ IsUUID(id)) =>
                 bad.err # "" /\ bad.g = NoRef /\ bad.hub = hub /\ bad.games = games
            /\ (~store.on \/ id \notin DOMAIN store.games) =>
                 /\ good.err = "" /\ good.hub[id] = good.g /\ good.g # NoRef
                 /\ good.before = newGameInstance(id, color, now)

\* a call of Get on a stored session that is not in memory ended with the
\* load error, and the registry has no entry for the id
C26_LoadErrorReturned ==
  \E c \in Players :
    /\ th[c].pc = "done" /\ th[c].err = "store error" /\ th[c].g = NoRef
    /\ hub[th[c].id] = NoRef
    /\ th[c].id \in DOMAIN store.games

\* the requests on the sessions ids answer alike and leave the same registry
\* and objects with the store st as with no store
SameWithout(st, ids) ==
  LET off == EmptyStore(FALSE)
      mem(r, s) == r.hub = s.hub /\ r.games = s.games
  IN /\ \A id \in ids, c \in ClientIds : \A color \in ColorDraws(hub, id) :
          /\ \A r \in {SSECall(hub, games, st, id, c, color, now, NoFails)} :
             \A s \in {SSECall(hub, games, off, id, c, color, now, NoFails)} :
               mem(r, s) /\ r.err = s.err /\ r.col = s.col /\ r.g = s.g
          /\ \A r \in {ForgetCall(hub, games, st, id, c, color, now, NoFails)} :
             \A s \in {ForgetCall(hub, games, off, id, c, color, now, NoFails)} :
               mem(r, s) /\ r.result = s.result /\ r.error = s.error
          /\ \A r \in {ReactCall(hub, games, st, chans, id, c, "up", color, now, NoFails, 1)} :
             \A s \in {ReactCall(hub, games, off, chans, id, c, "up", color, now, NoFails, 1)} :
               /\ mem(r, s) /\ r.result = s.result /\ r.error = s.error
               /\ r.wait = s.wait /\ r.chans = s.chans
          /\ \A uci \in IF c \in Players
                         THEN {<<>>, <<"a", "7", "a", "8">>, <<"g", "6", "g", "7">>,
                               <<"b", "7", "b", "6">>, <<"z", "9", "z", "9">>}
                         ELSE {<<"g", "6", "g", "7">>} :
               \A r \in {MoveCall(hub, games, st, id, c, uci, color, now, NoFails)} :
               \A s \in {MoveCall(hub, games, off, id, c, uci, color, now, NoFails)} :
                 /\ mem(r, s) /\ r.result = s.result /\ r.error = s.error
                 /\ r.state = s.state /\ r.cast = s.cast
          /\ \A target \in ClientIds :
             \A pick \in IF c = target THEN ClientIds \cup {""} ELSE {""} :
               \A r \in {ReleaseCall(hub, games, st, id, c, target, pick, color, now, NoFails)} :
               \A s \in {ReleaseCall(hub, games, off, id, c, target, pick, color, now, NoFails)} :
                 mem(r, s) /\ r.result = s.result /\ r.error = s.error
     /\ \A id \in ids \cap FreshIds, c \in ClientIds \cup {""}, color \in Colors :
          \A r \in {CreateGameCall(hub, games, st, c, id, color, now, NoFails)} :
          \A s \in {CreateGameCall(hub, games, off, c, id, color, now, NoFails)} :
            mem(r, s) /\ r.id = s.id /\ r.color = s.color /\ r.err = s.err
     /\ HandleStats(off) = [ok |-> TRUE, Started |-> 0, Completed |-> 0, Active |-> 0]

\* C23 as stated: in every state reached from an empty store whose writes
\* succeed, every request on every session is answered and changes the memory
\* as it does with no store; the stats without a store are all zero.
C23_StoreInvisible ==
  (store.on /\ HasFreeRef(games)) => SameWithout(store, GameIds)

\* C23 amended: the same for the sessions that are in memory or have no row in
\* the store, that is, as long as no session that was created with
\* CreateGame has been evicted by the sweep.
C23_StoreInvisibleUnlessEvicted ==
  (store.on /\ HasFreeRef(games)) =>
    SameWithout(store, {id \in GameIds : hub[id] # NoRef \/ id \notin DOMAIN store.games})

\* a session with a move played and its row in the store, in memory
C23_StoredAndInMemory ==
  /\ store.on
  /\ \E id \in GameIds :
       /\ hub[id] # NoRef /\ id \in DOMAIN store.games
       /\ Len(games[hub[id]].g.moves) > 0 /\ Len(store.moves) > 0

\* C24: a release asked by a client that is not the owner of the session is
\* answered not owner and leaves the objects as Hub.Get returned them; a
\* release asked by the owner is answered ok and the target is no key of
\* Clients afterwards; no release is answered ok for another requester.
C24_ReleaseOnlyByOwner ==
  \A id \in GameIds : HasFreeRef(games) =>
    \A c \in ClientIds, target \in ClientIds :
      \A pick \in IF c = target THEN ClientIds \cup {""} ELSE {""}, color \in ColorDraws(hub, id) :
        \A r \in {ReleaseCall(hub, games, store, id, c, target, pick, color, now, NoFails)} :
          r.get.err = "" =>
            /\ c # r.get.before.OwnerID =>
                 /\ r.result = "rejected" /\ r.error = "not owner"
                 /\ r.games = r.get.games
            /\ c = r.get.before.OwnerID =>
                 /\ r.result = "ok"
                 /\ target \notin DOMAIN r.games[r.g].Clients
                 /\ \A o \in DOMAIN r.games[r.g].Clients :
                      o \in DOMAIN r.get.before.Clients
                      /\ r.games[r.g].Clients[o] = r.get.before.Clients[o]
            /\ r.result = "ok" <=> c = r.get.before.OwnerID

\* a session that was never forgotten, with an owner, and a participant the
\* owner released: its session row is inactive and it holds no side
C24_ReleasedByOwner ==
  /\ store.on
  /\ \E id \in GameIds :
       /\ hub[id] # NoRef /\ id \in DOMAIN store.games
       /\ store.games[id].Status # "Abandoned"
       /\ games[hub[id]].OwnerID # ""
       /\ \E k \in DOMAIN store.sessions :
            /\ k[1] = id /\ ~store.sessions[k].Active
            /\ k[2] # games[hub[id]].OwnerID
            /\ k[2] \notin DOMAIN games[hub[id]].Clients

\* C25: a forget request on a session in memory is answered ok, with the
\* store row marked ended, Clients emptied and OwnerID cleared, only if its
\* user was the owner of the session when the request arrived.
C25_ForgetOnlyByOwner ==
  \A id \in GameIds : hub[id] # NoRef =>
    \A user \in ClientIds :
      \A r \in {ForgetCall(hub, games, store, id, user, White, now, NoFails)} :
        (r.cleared \/ r.result = "ok" \/ r.store.games # store.games) =>
          games[hub[id]].OwnerID = user

\* a session with an active row and no owner in memory: the forget request of
\* any user is answered ok and marks the row ended
C25_EndedByNewcomer ==
  /\ store.on
  /\ \E id \in GameIds :
       /\ hub[id] # NoRef /\ games[hub[id]].OwnerID = ""
       /\ id \in DOMAIN store.games /\ store.games[id].Active
       /\ \E user \in ClientIds :
            \E r \in {ForgetCall(hub, games, store, id, user, White, now, NoFails)} :
              /\ user # store.games[id].OwnerID
              /\ r.result = "ok" /\ ~r.store.games[id].Active
              /\ r.store.games[id].Status = "Abandoned"

\* C27: a session in memory that has its row in the store and was not
\* forgotten, once evicted and resolved again by Hub.Get, has the position,
\* the OwnerID, the OwnerColor and the Clients it had before the eviction.
C27_EvictHydrateRoundTrip ==
  \A id \in GameIds :
    (/\ store.on /\ hub[id] # NoRef /\ id \in DOMAIN store.games
     /\ store.games[id].Status # "Abandoned") =>
      \A color \in Colors :
        \A r \in {HubGet([hub EXCEPT ![id] = NoRef], [games EXCEPT ![hub[id]] = NoGame],
                          store, id, "", color, now, NoFails)} :
          /\ r.err = ""
          /\ FENOf(r.games[r.g].g) = FENOf(games[hub[id]].g)
          /\ r.games[r.g].OwnerID = games[hub[id]].OwnerID
          /\ r.games[r.g].OwnerColor = games[hub[id]].OwnerColor
          /\ r.games[r.g].Clients = games[hub[id]].Clients

\* a session hydrated from its row: the owner of the row is the owner and its
\* participant session is active in the store, and no client holds a side
C27_HydratedWithoutSeats ==
  /\ store.on
  /\ \E id \in GameIds :
       /\ hub[id] # NoRef /\ id \in DOMAIN store.games
       /\ joins[hub[id]].loads > 0
       /\ games[hub[id]].OwnerID # "" /\ games[hub[id]].OwnerID = store.games[id].OwnerID
       /\ <<id, games[hub[id]].OwnerID>> \in DOMAIN store.sessions
       /\ store.sessions[<<id, games[hub[id]].OwnerID>>].Active
       /\ games[hub[id]].Clients = EmptyMap

\* C28: with no move request in flight, the move table holds one row for each
\* move of a session in the store, numbered 1..n, and row k holds the k-th
\* move of the session with the side that made it and the client on that side.
C28_OneRowPerMove ==
  \A id \in GameIds :
    (/\ store.on /\ hub[id] # NoRef /\ id \in DOMAIN store.games
     /\ \A c \in ClientIds : th[c].pc = "idle") =>
      LET g == games[hub[id]]
          rows == {i \in 1..Len(store.moves) : store.moves[i].GameID = id}
          side(k) == IF k % 2 = 1 THEN White ELSE Black
      IN /\ Cardinality(rows) = Len(g.g.moves)
         /\ \A k \in 1..Len(g.g.moves) :
              \E i \in rows :
                /\ store.moves[i].Number = k
                /\ store.moves[i].UCI = g.g.moves[k]
                /\ store.moves[i].Color = (IF side(k) = White THEN "white" ELSE "black")
                /\ store.moves[i].UserID \in DOMAIN g.Clients
                /\ g.Clients[store.moves[i].UserID] = side(k)

\* two moves applied and recorded, both rows with the number 2
C28_TwoRowsNumberedTwo ==
  /\ \A c \in ClientIds : th[c].pc = "idle"
  /\ Len(store.moves) = 2
  /\ store.moves[1].Number = 2 /\ store.moves[2].Number = 2
  /\ store.moves[1].UserID # store.moves[2].UserID
  /\ \E id \in GameIds : hub[id] # NoRef /\ Len(games[hub[id]].g.moves) = 2

\* a value for each column SaveGameState can write
UpdateValues ==
  [FEN |-> FENOf(NewChessGame), PGN |-> <<<<"g", "6", "g", "7">>>>, Status |-> "Abandoned",
   Result |-> "1-0", Active |-> FALSE, LastSeen |-> now + 1, CompletedAt |-> now + 1]

\* the updates: a value for each column of any set of columns
Updates == {[f \in F |-> UpdateValues[f]] : F \in SUBSET DOMAIN UpdateValues}

C30_LockOrder ==
  \A t \in ClientIds :
    HoldsHub(t) => /\ th[t].pc # "visit"
                   /\ th[t].pc # "load"

\* the cleanup goroutine between g.Mu.Lock() and g.Mu.Unlock() of a game in
\* the registry, with h.Mu held
C30_SweepHoldsBoth ==
  /\ th["c"].pc = "visit"
  /\ hub[th["c"].id] # NoRef /\ hub[th["c"].id] = th["c"].g


\* the move strings of four characters whose default promotion is in question
PromotionInputs ==
  MoveInputs \cup
  { <<"b", "7", "b", "8">>, <<"a", "7", "a", "1">>, <<"c", "2", "c", "1">>,
    <<"g", "6", "g", "8">>, <<"h", "8", "h", "1">>, <<"d", "1", "d", "8">> }

\* the source square of a move holds a pawn whose final rank is the rank of
\* the destination: rank 8 for a white pawn, rank 1 for a black pawn
PawnReachesFinalRank(g, uci) ==
  /\ Len(uci) = 4
  /\ \E p \in {PieceAt(g.g.board, parseSquare(SubSeq(uci, 1, 2)))} :
       /\ p.type = "pawn"
       /\ \/ p.color = White /\ uci[4] = "8"
          \/ p.color = Black /\ uci[4] = "1"

\* C31: the default queen promotion is appended to a move of four characters
\* if and only if its source square holds a pawn and the rank of its
\* destination is the final rank of that pawn's colour (8 for a white pawn, 1
\* for a black pawn); every other move string is passed on unchanged.
C31_PromotionOnlyOnFinalRank ==
  \A r \in Live : \A uci \in PromotionInputs :
    appendPromotionIfPawn(games[r], uci) =
      IF PawnReachesFinalRank(games[r], uci) THEN Append(uci, "q") ELSE uci

\* a session where the black pawn on b7 is given the promotion for rank 8
C31_BlackPawnPromotedOnRank8 ==
  \E r \in Live :
    /\ PieceAt(games[r].g.board, 49) = Pc(Black, "pawn")
    /\ appendPromotionIfPawn(games[r], <<"b", "7", "b", "8">>) = <<"b", "7", "b", "8", "q">>

\* the moves accepted in the present state: the response and the stores before
\* and after each of them
AcceptedNow ==
  { r \in UNION { { MoveCall(hub, games, store, id, c, uci, color, now, NoFails)
                    : color \in ColorDraws(hub, id) }
                  : id \in GameIds, c \in Players, uci \in MoveInputs } :
      r.result = "ok" }

C33_AuthorizedWhenApplied ==
  [][\A c \in Players :
       (th[c].pc = "apply" /\ th'[c].pc = "snapshot") =>
         /\ c \in Seats(games[th[c].g])
         /\ games[th[c].g].Clients[c] = games[th[c].g].g.turn]_vars

\* the move of a client applied after the owner released it
C33_AppliedAfterRelease ==
  \E c \in Players :
    /\ th[c].pc = "snapshot"
    /\ c \notin Seats(games[th[c].g])
    /\ Len(games[th[c].g].g.moves) > 0
    /\ games[th[c].g].g.turn = Opp(th[c].col)

\* the lengths of the move histories of the state frames written on
\* connection w so far: the first event, then the broadcasts taken
FrameLengths(w) ==
  <<Len(streams[w].first.UCI)>> \o
  [i \in 1..Len(obs.taken[w]) |-> Len(obs.taken[w][i].data.UCI)]

\* C34: the state frames written on a streaming connection, the first event
\* and then the broadcasts taken from its queue, never go backwards: the move
\* history of each is at least as long as that of every frame written before
\* it, whatever the interleaving of the connection's setup with the moves and
\* their Broadcast goroutines.
C34_FramesNeverGoBack ==
  \A w \in Conns :
    (streams[w].pc = "open" /\ "first" \in DOMAIN streams[w]) =>
      \A i, j \in 1..Len(FrameLengths(w)) :
        i < j => FrameLengths(w)[i] <= FrameLengths(w)[j]

\* a connection whose first event holds two moves and whose next frame one
C34_OlderFrameAfterFirst ==
  \E w \in Conns :
    /\ streams[w].pc = "open" /\ "first" \in DOMAIN streams[w]
    /\ Len(streams[w].first.UCI) = 2
    /\ Len(obs.taken[w]) >= 1 /\ Len(obs.taken[w][1].data.UCI) = 1

\* C35: every accepted move is eventually followed by a state broadcast, the
\* Broadcast goroutine being scheduled in the end; its snapshot holds that
\* move, is put on the queue of every watcher registered then whose queue is
\* not full, and on no other queue; it is never older than the move.
C35_AcceptedMoveBroadcast ==
  /\ \A c \in Players : (th[c].pc = "broadcast") ~> (th[c].pc = "idle")
  /\ [][\A c \in Players :
          (th[c].pc = "broadcast" /\ th'[c].pc = "idle") =>
            \E g \in {games[th[c].g]} :
            \E state \in {StateLocked(g)} :
              /\ Len(state.UCI) >= th[c].number
              /\ state.UCI[th[c].number] = th[c].uci
              /\ \A w \in Conns :
                   IF w \in g.Watchers /\ Len(chans[w]) < QueueCap
                   THEN /\ Len(chans'[w]) = Len(chans[w]) + 1
                        /\ SubSeq(chans'[w], 1, Len(chans[w])) = chans[w]
                        /\ chans'[w][Len(chans'[w])].data = state
                   ELSE chans'[w] = chans[w]]_vars

\* the Broadcast goroutines of two moves have run: one connection took from
\* its queue a snapshot holding both moves, the queue of the other was full
C35_NewerSnapshotTaken ==
  /\ Len(obs.taken["s1"]) >= 1
  /\ Len(obs.taken["s1"][1].data.UCI) = 2
  /\ \A c \in Players : th[c].pc = "idle"
  /\ Len(chans["s2"]) = QueueCap
  /\ \A i \in 1..QueueCap : chans["s2"][i].data.UCI = <<>>

\* C36: for a session created with CreateGame on a store whose writes all
\* succeed, once the requests in flight have completed, the position and the
\* history in its row are those of the session in memory, whatever the
\* interleaving of the concurrent accepted moves.
C36_MirrorConverges ==
  (store.on /\ \A c \in ClientIds : th[c].pc = "idle") =>
    \A id \in GameIds :
      (hub[id] # NoRef /\ id \in DOMAIN store.games) =>
        /\ store.games[id].FEN = FENOf(games[hub[id]].g)
        /\ store.games[id].PGN = games[hub[id]].g.moves

\* no request in flight, two moves played, the row holding the first only
C36_RowOneMoveBehind ==
  /\ store.on /\ \A c \in ClientIds : th[c].pc = "idle"
  /\ \E id \in GameIds :
       /\ hub[id] # NoRef /\ id \in DOMAIN store.games
       /\ Len(games[hub[id]].g.moves) = 2
       /\ Len(store.games[id].PGN) = 1
       /\ Len(store.moves) = 2

\* C37: every watcher whose streaming connection is open is registered on the
\* Game object the registry maps its session id to: the sweep evicts no
\* session that has registered watchers, so the broadcast of a move accepted
\* for that id goes to the object the watchers are registered on.
C37_WatchersOnRegisteredObject ==
  \A w \in Conns :
    streams[w].pc = "open" =>
      /\ w \in games[streams[w].g].Watchers
      /\ hub[games[streams[w].g].ID] = streams[w].g

\* an open connection registered on an evicted object, a move accepted on the
\* object created since and broadcast, and nothing sent to the connection
C37_WatcherLeftBehind ==
  \E w \in Conns, id \in GameIds :
    /\ streams[w].pc = "open" /\ w \in games[streams[w].g].Watchers
    /\ games[streams[w].g].ID = id
    /\ hub[id] # NoRef /\ hub[id] # streams[w].g
    /\ Len(games[hub[id]].g.moves) > 0
    /\ \A c \in ClientIds : th[c].pc = "idle"
    /\ obs.serial > 0
    /\ chans[w] = <<>> /\ obs.taken[w] = <<>>

\* the role assignment of a session
Roles(g) == <<g.Clients, g.OwnerID, g.OwnerColor>>

\* C38: a rejected request leaves the role assignment of the session as it
\* was: after a forget request answered "not owner", and after a join for
\* which Hub.Get returns an error, Clients, OwnerID and OwnerColor are those
\* of before the request.
C38_RejectedLeavesRoles ==
  \A id \in GameIds : hub[id] # NoRef =>
    \A c \in ClientIds :
      /\ \A r \in {ForgetCall(hub, games, store, id, c, White, now, NoFails)} :
           r.error = "not owner" => Roles(r.games[r.g]) = Roles(games[hub[id]])
      /\ \A r \in {HubGet(hub, games, store, id, c, White, now, {"EnsureUserSession"})} :
           r.err # "" => Roles(r.games[r.g]) = Roles(games[hub[id]])

\* a session with an owner and a free side: the forget request of a newcomer
\* is answered "not owner" and leaves the newcomer seated on the free side
C38_SeatedByRejectedForget ==
  \E id \in GameIds, c \in ClientIds :
    /\ hub[id] # NoRef
    /\ games[hub[id]].OwnerID \notin {"", c}
    /\ c \notin Seats(games[hub[id]])
    /\ \E r \in {ForgetCall(hub, games, store, id, c, White, now, NoFails)} :
         /\ r.error = "not owner"
         /\ c \in Seats(r.games[r.g])
         /\ r.games[r.g].Clients[c] = Opp(games[hub[id]].OwnerColor)

\* C39: no deadlock on h.Mu and the g.Mu of the sessions, whatever the
\* interleaving of the request handlers, the Broadcast goroutines and the
\* cleanup goroutine: while some thread is in flight some thread can take its
\* next step, a thread at Lock() gets the lock in the end, and every lock
\* that is taken is released in the end.
C39_NoDeadlock ==
  /\ []((\E t \in ClientIds : th[t].pc = "locks") =>
          \E t \in ClientIds :
            /\ th[t].pc = "locks"
            /\ \/ Head(th[t].ops)[1] = "unlock"
               \/ \A u \in ClientIds : Head(th[t].ops)[2] \notin Held(u))
  /\ \A t \in ClientIds : \A m \in GameMus \cup {HubMu} :
       /\ (m \in Held(t)) ~> (m \notin Held(t))
       /\ AtLock(t, m) ~> (m \in Held(t))

\* the cleanup goroutine holds h.Mu and waits for the g.Mu a request holds,
\* another request waits for h.Mu
C39_SweepWaitsForSession ==
  /\ HubMu \in Held("c") /\ AtLock("c", "g1.Mu")
  /\ "g1.Mu" \in Held("a")
  /\ AtLock("b", HubMu)

\* C40: once the row of a session has been marked ended, by forget or by a
\* move with a terminal outcome, no later request marks it active again: in
\* every reachable state of the store a row with a completion timestamp has
\* active = false.
C40_EndedStaysEnded ==
  \A id \in DOMAIN store.games :
    store.games[id].CompletedAt # ZeroTime => ~store.games[id].Active

\* a row that forget marked ended, active again after a move of a client that
\* joined the session since
C40_ForgottenRowActive ==
  \E id \in DOMAIN store.games :
    /\ store.games[id].CompletedAt # ZeroTime /\ store.games[id].Status = ""
    /\ store.games[id].Active
    /\ Len(store.games[id].PGN) > 0
    /\ hub[id] # NoRef /\ games[hub[id]].OwnerID # ""
=============================================================================
